---- MODULE Spec2Model ----
(***************************************************************************)
(* Model of the boston-gov conversation agent                              *)
(* (backend/src/agents/conversation.py) with the two stores it reads:      *)
(* the Facts Registry cache (services/facts_service.py) and the process    *)
(* graph (services/graph_service.py).                                      *)
(*                                                                         *)
(* Python values are represented as follows.                               *)
(*   str            a TLA+ string; None in a string slot is the value None *)
(*   dict           a function from its keys (strings) to values           *)
(*   list           a sequence                                             *)
(*   None or {} or [] in an object/list slot: the empty function Nothing   *)
(*                  (all three are falsy and the code only tests truth)    *)
(*   pydantic model [cls |-> name, fields |-> dict]; model_dump takes the  *)
(*                  fields                                                 *)
(*   the question   [lead, body, trail]: a run of lead whitespace          *)
(*                  characters, a core of body characters that starts and  *)
(*                  ends with a non-whitespace character, a run of trail   *)
(*                  whitespace characters                                  *)
(***************************************************************************)
EXTENDS Integers, Sequences, FiniteSets, TLC

VARIABLES
    pc,                     \* position of the ask() coroutine / of the caller
    question,               \* local `question` of ask (stripped once validated)
    max_iterations,         \* local `max_iterations` of ask
    iteration,              \* loop variable of `for iteration in range(...)`
    messages,               \* local `messages`
    tool_results,           \* local `tool_results`
    tool_calls_made,        \* local `tool_calls_made`
    response,               \* local `response.content` of the current iteration
    tool_idx,               \* index into tool_use_blocks of the inner for loop
    tool_response_content,  \* local `tool_response_content`
    args,                   \* the arguments ask() was called with
    outcome,                \* what ask() / the extractor returned or raised
    cache,                  \* FactsService._cache, in insertion order
    graph,                  \* contents of the process graph
    engine_calls,           \* number of client.messages.create calls made
    dispatches,             \* number of _execute_tool_call calls made
    store_calls,            \* number of calls made on a backing store
    raised,                 \* per dispatch: the exception raised inside it, or NoExc
    engine_exc,             \* the exception client.messages.create raised, or NoExc
    tasks,                  \* the ask() coroutines of the event loop: which one runs,
                            \* and the saved locals of those that are suspended
    http,                   \* the response of the chat endpoint
    lock,                   \* FactsService._lock: the thread that holds it, or NoThread
    threads,                \* per thread calling FactsService: its call and position
    disk,                   \* the registry files in facts_dir
    loads,                  \* per registry: disk reads, invalidations, objects returned
    neo4j                   \* the Neo4jClient singleton: _driver, _config, its last call

vars == <<pc, question, max_iterations, iteration, messages, tool_results,
          tool_calls_made, response, tool_idx, tool_response_content, args,
          outcome, cache, graph, engine_calls, dispatches, store_calls, raised,
          engine_exc, tasks, http, lock, threads, disk, loads, neo4j>>

\* what one ask() invocation works on
ask_vars == <<pc, question, max_iterations, iteration, messages, tool_results,
              tool_calls_made, response, tool_idx, tool_response_content, args,
              outcome, engine_calls, dispatches, store_calls, raised, engine_exc>>
\* what ask() does not touch
surroundings == <<tasks, http, lock, threads, disk, loads, neo4j>>
\* what FactsService works on, apart from its cache
service_vars == <<lock, threads, disk, loads>>

----------------------------------------------------------------------------
(* Program constants                                                       *)

MaxQuestionLength == 10000
MinIterations == 1
MaxIterationsLimit == 20
DefaultMaxIterations == 5

SanitizedMessage ==
    "Tool execution failed due to an internal error. Please try rephrasing your query or contact support if the issue persists."

----------------------------------------------------------------------------
(* Bounds of the model                                                     *)

\* the engine requests at most this many tools during one ask of Spec
MaxToolUses == 2
\* the tool results handed to the extractor in SpecExtract hold at most this
\* many entries in all
MaxResults == 2

----------------------------------------------------------------------------
(* Python values                                                           *)

None == "<None>"
Nothing == <<>>

\* dict.get(key) on a dict whose values are strings
Get(d, k) == IF k \in DOMAIN d THEN d[k] ELSE None

\* `v is None` in place of `not v`
FalsyNoneOnly(v) == v = None

\* `not v` for v a str or None
Falsy(v) == v = None \/ v = ""

\* `not v` for v a dict, a list or None
Empty(v) == DOMAIN v = {}

\* BaseModel.model_dump()
model_dump(obj) == obj.fields

\* str(result), as put into a tool_result block
Str(result) == <<"str", result>>

NoExc == [type |-> "", text |-> ""]

\* exceptions a backing store can raise during a lookup
StoreExceptions ==
    { [type |-> "ConnectionError", text |-> "Database connection failed: bolt://10.0.0.5:7687"],
      [type |-> "GraphServiceError", text |-> "Unexpected error: KeyError('p')"] }

\* exceptions client.messages.create can raise
EngineExceptions ==
    { [type |-> "APIConnectionError", text |-> "Connection error."],
      [type |-> "RateLimitError", text |-> "rate_limit_error"] }

\* what a lookup on a store does: return normally, or raise
StoreBehaviours ==
    { [raises |-> FALSE, exc |-> NoExc] } \cup { [raises |-> TRUE, exc |-> e] : e \in StoreExceptions }

----------------------------------------------------------------------------
(* pydantic: HttpUrl, Fact, Citation, ConversationResponse                 *)

\* HttpUrl parsing: rejects what is no http(s) URL, gives an empty path a "/"
NormalUrls == { "https://boston.gov/", "https://boston.gov/rpp", "https://boston.gov/clerk" }
HttpUrl(u) ==
    IF u = "https://boston.gov" THEN [valid |-> TRUE, url |-> "https://boston.gov/"]
    ELSE IF u \in NormalUrls THEN [valid |-> TRUE, url |-> u]
    ELSE [valid |-> FALSE, url |-> u]

Fact(id, text, source_url, source_section) ==
    [cls |-> "Fact",
     fields |-> [id |-> id, text |-> text, source_url |-> HttpUrl(source_url).url,
                 source_section |-> source_section, confidence |-> "high"]]

\* Citation(fact_id=..., url=..., text=..., source_section=...): the object,
\* or a ValidationError (url no HttpUrl, text shorter than min_length=1)
Citation(fact_id, url, text, source_section) ==
    IF HttpUrl(url).valid /\ Len(text) >= 1
    THEN [valid |-> TRUE,
          obj |-> [fact_id |-> fact_id, url |-> HttpUrl(url).url, text |-> text,
                   source_section |-> source_section]]
    ELSE [valid |-> FALSE, obj |-> Nothing]

\* mutant: answer without min_length
ConversationResponseUnchecked(answer, citations, calls) ==
    [valid |-> TRUE,
     obj |-> [answer |-> answer, citations |-> citations, tool_calls_made |-> calls]]

\* ConversationResponse(answer=..., ...): answer has min_length=1
ConversationResponse(answer, citations, calls) ==
    IF Len(answer) >= 1
    THEN [valid |-> TRUE,
          obj |-> [answer |-> answer, citations |-> citations, tool_calls_made |-> calls]]
    ELSE [valid |-> FALSE, obj |-> Nothing]

----------------------------------------------------------------------------
(* Fact Store: FactsService over its cache                                 *)

RECURSIVE Flatten(_)
\* the facts of all cached registries, in cache order then file order
Flatten(c) == IF c = <<>> THEN <<>> ELSE Head(c).facts \o Flatten(Tail(c))

\* str.startswith over the identifiers of the model: s = p + t for a tail t
IdTails == { "", "a", "b", ".a", ".b", "rpp.a", "rpp.b" }
StartsWith(s, p) == \E t \in IdTails : s = p \o t

RECURSIVE FirstWithId(_, _)
FirstWithId(facts, fact_id) ==
    IF facts = <<>> THEN Nothing
    ELSE IF Head(facts).fields.id = fact_id THEN Head(facts)
    ELSE FirstWithId(Tail(facts), fact_id)

get_fact_by_id(c, fact_id) == FirstWithId(Flatten(c), fact_id)

IdHasPrefix(fact, prefix) == StartsWith(fact.fields.id, prefix)
get_facts_by_prefix(c, prefix) ==
    SelectSeq(Flatten(c), LAMBDA fact : IdHasPrefix(fact, prefix))

get_all_facts(c) == Flatten(c)

FactA  == Fact("rpp.a", "Permits are free", "https://boston.gov/rpp", "Cost")
FactB  == Fact("rpp.b", "One proof of residency", "https://boston.gov", None)
FactA2 == Fact("rpp.a", "Permits cost $25", "https://boston.gov/clerk", "Fees")

\* two registries loaded; the second file repeats an id of the first
InitialCache ==
    << [name |-> "boston_rpp", facts |-> <<FactA, FactB>>],
       [name |-> "boston_fees", facts |-> <<FactA2>>] >>

----------------------------------------------------------------------------
(* Graph Store: GraphService over the graph                                *)

Process(process_id, name, source_url) ==
    [cls |-> "Process",
     fields |-> [process_id |-> process_id, name |-> name, source_url |-> source_url]]
Step(step_id, name, order, source_url) ==
    [cls |-> "Step",
     fields |-> [step_id |-> step_id, name |-> name, order |-> order, source_url |-> source_url]]
Requirement(requirement_id, text, fact_id, source_url) ==
    [cls |-> "Requirement",
     fields |-> [requirement_id |-> requirement_id, text |-> text, fact_id |-> fact_id,
                 source_url |-> source_url, source_section |-> None]]
Office(office_id, name, source_url) ==
    [cls |-> "Office",
     fields |-> [office_id |-> office_id, name |-> name, source_url |-> source_url]]
DocumentType(doc_type_id, name, source_url) ==
    [cls |-> "DocumentType",
     fields |-> [doc_type_id |-> doc_type_id, name |-> name, source_url |-> source_url]]

InitialGraph ==
    [ processes |-> << Process("p1", "Resident Parking Permit", "https://boston.gov/rpp") >>,
      steps |-> << Step("s2", "Gather documents", 2, "https://boston.gov/rpp"),
                   Step("s1", "Check eligibility", 1, "https://boston.gov/rpp") >>,
      requirements |-> << Requirement("r1", "Proof of residency", "rpp.b", "https://boston.gov/") >>,
      offices |-> << Office("o1", "Parking Clerk", "https://boston.gov/clerk") >>,
      doc_types |-> << DocumentType("d1", "Utility bill", "https://boston.gov/rpp") >>,
      HAS_STEP |-> { <<"p1", "s1">>, <<"p1", "s2">> },
      REQUIRES |-> { <<"p1", "r1">> },
      HANDLED_AT |-> { <<"s1", "o1">> },
      NEEDS_DOCUMENT |-> { <<"s2", "d1">> },
      SATISFIES |-> { <<"d1", "r1">> } ]

RECURSIVE InsertByOrder(_, _)
InsertByOrder(step, sorted) ==
    IF sorted = <<>> THEN <<step>>
    ELSE IF step.fields.order < Head(sorted).fields.order THEN <<step>> \o sorted
    ELSE <<Head(sorted)>> \o InsertByOrder(step, Tail(sorted))

RECURSIVE OrderByOrder(_)
\* ORDER BY s.order ASC (stable)
OrderByOrder(steps) ==
    IF steps = <<>> THEN <<>>
    ELSE InsertByOrder(steps[Len(steps)], OrderByOrder(SubSeq(steps, 1, Len(steps) - 1)))

IsProcess(p, process_id) == p.fields.process_id = process_id
get_process_by_id(g, process_id) ==
    LET records == SelectSeq(g.processes, LAMBDA p : IsProcess(p, process_id))
    IN  IF records = <<>> THEN Nothing ELSE records[1]

IsStepOf(g, s, process_id) ==
    /\ \E p \in 1..Len(g.processes) : g.processes[p].fields.process_id = process_id
    /\ <<process_id, s.fields.step_id>> \in g.HAS_STEP
get_process_steps(g, process_id) ==
    OrderByOrder(SelectSeq(g.steps, LAMBDA s : IsStepOf(g, s, process_id)))

IsRequirementOf(g, r, process_id) ==
    /\ \E p \in 1..Len(g.processes) : g.processes[p].fields.process_id = process_id
    /\ <<process_id, r.fields.requirement_id>> \in g.REQUIRES
get_process_requirements(g, process_id) ==
    SelectSeq(g.requirements, LAMBDA r : IsRequirementOf(g, r, process_id))

IsOfficeOf(g, o, step_id) ==
    /\ \E s \in 1..Len(g.steps) : g.steps[s].fields.step_id = step_id
    /\ <<step_id, o.fields.office_id>> \in g.HANDLED_AT
get_step_office(g, step_id) ==
    LET records == SelectSeq(g.offices, LAMBDA o : IsOfficeOf(g, o, step_id))
    IN  IF records = <<>> THEN Nothing ELSE records[1]

IsDocumentOfStep(g, d, step_id) ==
    /\ \E s \in 1..Len(g.steps) : g.steps[s].fields.step_id = step_id
    /\ <<step_id, d.fields.doc_type_id>> \in g.NEEDS_DOCUMENT
get_step_document_types(g, step_id) ==
    SelectSeq(g.doc_types, LAMBDA d : IsDocumentOfStep(g, d, step_id))

IsDocumentOfRequirement(g, d, requirement_id) ==
    /\ \E r \in 1..Len(g.requirements) : g.requirements[r].fields.requirement_id = requirement_id
    /\ <<d.fields.doc_type_id, requirement_id>> \in g.SATISFIES
get_requirement_document_types(g, requirement_id) ==
    SelectSeq(g.doc_types, LAMBDA d : IsDocumentOfRequirement(g, d, requirement_id))

\* [x.model_dump() for x in xs]
DumpAll(xs) == [i \in 1..Len(xs) |-> model_dump(xs[i])]
\* x.model_dump() if x else None
DumpOrNone(x) == IF Empty(x) THEN Nothing ELSE model_dump(x)

----------------------------------------------------------------------------
(* Tool Dispatcher: _execute_tool_call, _execute_graph_query,              *)
(* _execute_facts_query. A call ends in [raised, value, exc, store_calls]: *)
(* the dict returned or the exception raised, and the store calls it made. *)

Return(result) == [raised |-> FALSE, value |-> result, exc |-> NoExc, store_calls |-> 0]
Raise(e) == [raised |-> TRUE, value |-> Nothing, exc |-> e, store_calls |-> 0]

\* one lookup on a store that behaves as `beh`; `result` is what it returns
StoreCall(beh, result) ==
    IF beh.raises
    THEN [raised |-> TRUE, value |-> Nothing, exc |-> beh.exc, store_calls |-> 1]
    ELSE [raised |-> FALSE, value |-> result, exc |-> NoExc, store_calls |-> 1]

\* an unknown query_type answered like a lookup that found nothing
UnknownQueryTypeAsNoFacts(query_type) == [facts |-> <<>>]

MissingParameter(name) == [error |-> "Missing required parameter: " \o name]
UnknownQueryType(query_type) == [error |-> "Unknown query_type: " \o query_type]

execute_graph_query(g, tool_input, beh) ==
    LET query_type == Get(tool_input, "query_type")
        process_id == Get(tool_input, "process_id")
        step_id == Get(tool_input, "step_id")
        requirement_id == Get(tool_input, "requirement_id")
    IN  IF Falsy(query_type) THEN Return(MissingParameter("query_type"))
        ELSE IF query_type = "get_process" THEN
            IF Falsy(process_id) THEN Return(MissingParameter("process_id"))
            ELSE StoreCall(beh, [process |-> DumpOrNone(get_process_by_id(g, process_id))])
        ELSE IF query_type = "get_process_steps" THEN
            IF Falsy(process_id) THEN Return(MissingParameter("process_id"))
            ELSE StoreCall(beh, [steps |-> DumpAll(get_process_steps(g, process_id))])
        ELSE IF query_type = "get_process_requirements" THEN
            IF Falsy(process_id) THEN Return(MissingParameter("process_id"))
            ELSE StoreCall(beh, [requirements |-> DumpAll(get_process_requirements(g, process_id))])
        ELSE IF query_type = "get_step_office" THEN
            IF Falsy(step_id) THEN Return(MissingParameter("step_id"))
            ELSE StoreCall(beh, [office |-> DumpOrNone(get_step_office(g, step_id))])
        ELSE IF query_type = "get_step_documents" THEN
            IF Falsy(step_id) THEN Return(MissingParameter("step_id"))
            ELSE StoreCall(beh, [documents |-> DumpAll(get_step_document_types(g, step_id))])
        ELSE IF query_type = "get_requirement_documents" THEN
            IF Falsy(requirement_id) THEN Return(MissingParameter("requirement_id"))
            ELSE StoreCall(beh, [documents |-> DumpAll(get_requirement_document_types(g, requirement_id))])
        ELSE Return(UnknownQueryType(query_type))

execute_facts_query(c, tool_input, beh) ==
    LET query_type == Get(tool_input, "query_type")
        fact_id == Get(tool_input, "fact_id")
        prefix == Get(tool_input, "prefix")
    IN  IF Falsy(query_type) THEN Return(MissingParameter("query_type"))
        ELSE IF query_type = "by_id" THEN
            IF Falsy(fact_id) THEN Return(MissingParameter("fact_id"))
            ELSE StoreCall(beh, [fact |-> DumpOrNone(get_fact_by_id(c, fact_id))])
        ELSE IF query_type = "by_prefix" THEN
            IF Falsy(prefix) THEN Return(MissingParameter("prefix"))
            ELSE StoreCall(beh, [facts |-> DumpAll(get_facts_by_prefix(c, prefix))])
        ELSE IF query_type = "all" THEN
            StoreCall(beh, [facts |-> DumpAll(get_all_facts(c))])
        ELSE Return(UnknownQueryType(query_type))

\* mutant: "message": str(e)
SanitizedErrorLeaky(tool_name, e) ==
    [error |-> "internal_error", tool |-> tool_name, message |-> e.text]

\* the payload of the `except Exception` handler of _execute_tool_call
SanitizedError(tool_name, e) ==
    [error |-> "internal_error", tool |-> tool_name, message |-> SanitizedMessage]

\* the try block of _execute_tool_call
route_tool_call(c, g, tool_name, tool_input, beh) ==
    IF tool_name = "query_graph" THEN execute_graph_query(g, tool_input, beh)
    ELSE IF tool_name = "query_facts" THEN execute_facts_query(c, tool_input, beh)
    ELSE Raise([type |-> "ConversationAgentError", text |-> "Unknown tool: " \o tool_name])

\* mutant: no `except Exception`
execute_tool_call_uncaught(c, g, tool_name, tool_input, beh) ==
    route_tool_call(c, g, tool_name, tool_input, beh)

execute_tool_call(c, g, tool_name, tool_input, beh) ==
    LET tried == route_tool_call(c, g, tool_name, tool_input, beh)
    IN  IF tried.raised
        THEN [tried EXCEPT !.raised = FALSE, !.value = SanitizedError(tool_name, tried.exc)]
        ELSE tried

----------------------------------------------------------------------------
(* Citation Extractor: _extract_citations_from_response. The state of its  *)
(* loop is [citations, seen_fact_ids, raised]; raised is set when building *)
(* a Citation fails validation, which ends the extraction.                 *)

\* mutant: only the id is tested
MalformedIdOnly(fact_data) == Falsy(Get(fact_data, "id"))

\* the `if not fact_id or "source_url" not in ... or "text" not in ...` test
Malformed(fact_data) ==
    \/ Falsy(Get(fact_data, "id"))
    \/ "source_url" \notin DOMAIN fact_data
    \/ "text" \notin DOMAIN fact_data

\* mutant: a later occurrence of an id replaces the citation of the earlier one
ScanFactLastWins(acc, fact_data) ==
    IF acc.raised \/ Falsy(Get(fact_data, "id")) THEN acc
    ELSE LET made == Citation(Get(fact_data, "id"), fact_data["source_url"],
                              fact_data["text"], Get(fact_data, "source_section"))
         IN  IF Get(fact_data, "id") \in acc.seen_fact_ids
             THEN [acc EXCEPT !.citations =
                       [n \in 1..Len(@) |-> IF @[n].fact_id = made.obj.fact_id THEN made.obj ELSE @[n]]]
             ELSE [acc EXCEPT !.citations = Append(@, made.obj),
                              !.seen_fact_ids = @ \cup {Get(fact_data, "id")}]

\* mutant: citations.insert(0, ...)
ScanFactPrepend(acc, fact_data) ==
    IF acc.raised \/ Falsy(Get(fact_data, "id")) THEN acc
    ELSE IF Get(fact_data, "id") \in acc.seen_fact_ids THEN acc
    ELSE LET made == Citation(Get(fact_data, "id"), fact_data["source_url"],
                              fact_data["text"], Get(fact_data, "source_section"))
         IN  [acc EXCEPT !.citations = <<made.obj>> \o @,
                         !.seen_fact_ids = @ \cup {Get(fact_data, "id")}]

\* one fact_data of a result: skipped, already seen, or turned into a Citation;
\* fact_data["source_url"] and fact_data["text"] raise KeyError on a missing key
ScanFact(acc, fact_data) ==
    IF acc.raised \/ Malformed(fact_data) THEN acc
    ELSE IF Get(fact_data, "id") \in acc.seen_fact_ids THEN acc
    ELSE IF "source_url" \notin DOMAIN fact_data \/ "text" \notin DOMAIN fact_data
         THEN [acc EXCEPT !.raised = TRUE]
    ELSE LET made == Citation(Get(fact_data, "id"), fact_data["source_url"],
                              fact_data["text"], Get(fact_data, "source_section"))
         IN  IF made.valid
             THEN [acc EXCEPT !.citations = Append(@, made.obj),
                              !.seen_fact_ids = @ \cup {Get(fact_data, "id")}]
             ELSE [acc EXCEPT !.raised = TRUE]

RECURSIVE ScanFacts(_, _)
\* `for fact_data in result["facts"]`
ScanFacts(acc, facts) ==
    IF facts = <<>> THEN acc ELSE ScanFacts(ScanFact(acc, Head(facts)), Tail(facts))

\* mutant: the requirements of a graph lookup are cited like facts
ScanResultWithRequirements(acc, result) ==
    IF "fact" \in DOMAIN result /\ ~Empty(result["fact"]) THEN ScanFact(acc, result["fact"])
    ELSE IF "facts" \in DOMAIN result /\ ~Empty(result["facts"]) THEN ScanFacts(acc, result["facts"])
    ELSE IF "requirements" \in DOMAIN result
         THEN ScanFacts(acc, [n \in 1..Len(result["requirements"]) |->
                                [id |-> result["requirements"][n].fact_id,
                                 text |-> result["requirements"][n].text,
                                 source_url |-> result["requirements"][n].source_url]])
    ELSE acc

\* the body of `for result in tool_results`
ScanResult(acc, result) ==
    IF "fact" \in DOMAIN result /\ ~Empty(result["fact"]) THEN ScanFact(acc, result["fact"])
    ELSE IF "facts" \in DOMAIN result /\ ~Empty(result["facts"]) THEN ScanFacts(acc, result["facts"])
    ELSE acc

RECURSIVE ScanResults(_, _)
ScanResults(acc, results) ==
    IF results = <<>> THEN acc ELSE ScanResults(ScanResult(acc, Head(results)), Tail(results))

extract_citations_from_response(response_text, results) ==
    ScanResults([citations |-> <<>>, seen_fact_ids |-> {}, raised |-> FALSE], results)

----------------------------------------------------------------------------
(* The reasoning engine: what client.messages.create can answer            *)

Text(text) == [type |-> "text", text |-> text]
ToolUse(id, request) ==
    [type |-> "tool_use", id |-> id, name |-> request.name, input |-> request.input]

IsToolUse(block) == block.type = "tool_use"
IsText(block) == block.type = "text"

\* the tool requests the engine chooses from in Spec
ToolRequests ==
    { [name |-> "query_facts", input |-> [query_type |-> "by_id", fact_id |-> "rpp.a"]],
      [name |-> "query_facts", input |-> [query_type |-> "all"]],
      [name |-> "query_graph", input |-> [query_type |-> "get_process_requirements", process_id |-> "p1"]],
      [name |-> "query_graph", input |-> [query_type |-> "get_process"]],
      [name |-> "delete_facts", input |-> [query_type |-> "all"]] }

\* the request of test_max_iterations_error
PrefixRequest == [name |-> "query_facts", input |-> [query_type |-> "by_prefix", prefix |-> "rpp."]]

TextA == "I don't have verified information about that."
TextB == " Please contact the Parking Clerk."

\* responses without a tool request
FinalContents ==
    { <<>>, <<Text("")>>, <<Text(TextA)>>, <<Text(TextA), Text(TextB)>>, <<Text(TextB), Text(TextA)>> }

\* the engine gives each tool request of a response its own id
Stamp(requests) == [i \in 1..Len(requests) |-> ToolUse("toolu_" \o ToString(i), requests[i])]

\* responses with 1..n tool requests, after an optional text segment
ToolContents(n) ==
    { lead \o Stamp(requests) :
        lead \in { <<>>, <<Text(TextA)>> },
        requests \in UNION { [1..k -> ToolRequests] : k \in 1..n } }

\* Spec: any response, as long as the engine has asked for fewer than MaxToolUses tools
EngineContents(used) == FinalContents \cup ToolContents(MaxToolUses - used)

\* SpecIter: an engine that asks for a tool in every response
IterContents(calls) ==
    IF calls = 0
    THEN { Stamp(<<PrefixRequest>>), <<Text(TextA)>> \o Stamp(<<PrefixRequest, PrefixRequest>>) }
    ELSE { Stamp(<<PrefixRequest>>) }

----------------------------------------------------------------------------
(* ask(question, max_iterations=5)                                         *)

Question(lead, body, trail) == [lead |-> lead, body |-> body, trail |-> trail]
\* len(question)
QLen(q) == q.lead + q.body + q.trail
\* question.lstrip()
lstrip(q) == Question(0, q.body, q.trail)
\* question.strip()
strip(q) == Question(0, q.body, 0)

\* the argument max_iterations: left out, or a value that is an int or is not
Omitted == [given |-> FALSE, is_int |-> TRUE, value |-> 0]
IntArg(n) == [given |-> TRUE, is_int |-> TRUE, value |-> n]
FloatArg(n) == [given |-> TRUE, is_int |-> FALSE, value |-> n]
ArgValue(arg) == IF arg.given THEN arg.value ELSE DefaultMaxIterations

NoOutcome == [kind |-> "none", type |-> "", message |-> "", value |-> Nothing]
Returned(obj) == [kind |-> "return", type |-> "", message |-> "", value |-> obj]
Raised(type, message) == [kind |-> "raise", type |-> type, message |-> message, value |-> Nothing]

MaxIterationsError(n) ==
    Raised("ConversationAgentError",
           "Max iterations (" \o ToString(n) \o ") reached without final response")
\* the `except Exception as e` handler of ask
FailedToGenerate(text) ==
    Raised("ConversationAgentError", "Failed to generate response: " \o text)

\* mutant: the length is measured after strip()
validateAfterStrip(q, arg) ==
    IF QLen(q) = 0 \/ strip(q).body = 0 THEN Raised("ValueError", "Question cannot be empty")
    ELSE IF QLen(strip(q)) > MaxQuestionLength
         THEN Raised("ValueError", "Question exceeds maximum length of 10000 characters")
    ELSE IF ~arg.is_int \/ ArgValue(arg) < MinIterations \/ ArgValue(arg) > MaxIterationsLimit
         THEN Raised("ValueError", "max_iterations must be an integer between 1 and 20")
    ELSE NoOutcome

\* the three validations of ask, in order: the error raised, or NoOutcome
validate(q, arg) ==
    IF QLen(q) = 0 \/ strip(q).body = 0 THEN Raised("ValueError", "Question cannot be empty")
    ELSE IF QLen(q) > MaxQuestionLength
         THEN Raised("ValueError", "Question exceeds maximum length of 10000 characters")
    ELSE IF ~arg.is_int \/ ArgValue(arg) < MinIterations \/ ArgValue(arg) > MaxIterationsLimit
         THEN Raised("ValueError", "max_iterations must be an integer between 1 and 20")
    ELSE NoOutcome

\* mutant: range(max_iterations + 1)
InRangeOffByOne(i, n) == i <= n
\* `for iteration in range(max_iterations)`: is there an iteration number i
InRange(i, n) == i < n

RECURSIVE JoinReversed(_)
\* mutant: the text segments are joined last to first
JoinReversed(text_blocks) ==
    IF text_blocks = <<>> THEN "" ELSE JoinReversed(Tail(text_blocks)) \o Head(text_blocks).text

RECURSIVE Join(_)
\* "".join(block.text for block in text_blocks)
Join(text_blocks) ==
    IF text_blocks = <<>> THEN "" ELSE Head(text_blocks).text \o Join(Tail(text_blocks))

\* the branch of ask taken on a response without tool requests
final_response(content, results, calls) ==
    LET text_blocks == SelectSeq(content, IsText)
        answer == Join(text_blocks)
        extracted == extract_citations_from_response(answer, results)
        made == ConversationResponse(answer, extracted.citations, calls)
    IN  IF text_blocks = <<>>
        THEN Raised("ConversationAgentError", "No text response from agent")
        ELSE IF extracted.raised THEN FailedToGenerate("1 validation error for Citation")
        ELSE IF ~made.valid THEN FailedToGenerate("1 validation error for ConversationResponse")
        ELSE Returned(made.obj)

\* mutant: only the first tool request of a response is kept
tool_use_blocks_first(content) ==
    IF SelectSeq(content, IsToolUse) = <<>> THEN <<>> ELSE << Head(SelectSeq(content, IsToolUse)) >>

\* mutant: the tool requests of a response, last listed first
tool_use_blocks_reversed(content) ==
    LET listed == SelectSeq(content, IsToolUse)
    IN  [i \in 1..Len(listed) |-> listed[Len(listed) + 1 - i]]

tool_use_blocks(content) == SelectSeq(content, IsToolUse)

\* ask is entered: validation, then the locals of the loop
Ask(q, arg) ==
    /\ pc = "idle"
    /\ args' = [question |-> q, max_iterations |-> arg]
    /\ IF validate(q, arg).kind = "raise"
       THEN /\ pc' = "done"
            /\ outcome' = validate(q, arg)
            /\ UNCHANGED <<question, max_iterations, messages>>
       ELSE /\ question' = strip(q)
            /\ max_iterations' = ArgValue(arg)
            /\ messages' = << [role |-> "user", content |-> strip(q)] >>
            /\ IF InRange(0, ArgValue(arg))
               THEN pc' = "engine" /\ outcome' = NoOutcome
               ELSE pc' = "done" /\ outcome' = MaxIterationsError(ArgValue(arg))
    /\ iteration' = 0
    /\ tool_results' = <<>>
    /\ tool_calls_made' = <<>>
    /\ UNCHANGED <<response, tool_idx, tool_response_content, cache, graph,
                   engine_calls, dispatches, store_calls, raised, engine_exc>>
    /\ UNCHANGED surroundings

\* client.messages.create returns `content`; ask handles it up to the next call
EngineResponds(content) ==
    /\ pc = "engine"
    /\ engine_calls' = engine_calls + 1
    /\ response' = content
    /\ IF tool_use_blocks(content) = <<>>
       THEN /\ pc' = "done"
            /\ outcome' = final_response(content, tool_results, tool_calls_made)
            /\ UNCHANGED <<tool_idx, tool_response_content>>
       ELSE /\ pc' = "dispatch"
            /\ tool_idx' = 1
            /\ tool_response_content' = <<>>
            /\ UNCHANGED outcome
    /\ UNCHANGED <<question, max_iterations, iteration, messages, tool_results,
                   tool_calls_made, args, cache, graph, dispatches, store_calls, raised,
                   engine_exc>>
    /\ UNCHANGED surroundings

\* mutant: the failed call is tried again
EngineRaisesRetry(e) ==
    /\ pc = "engine"
    /\ engine_calls < MaxIterationsLimit
    /\ engine_calls' = engine_calls + 1
    /\ engine_exc' = e
    /\ UNCHANGED <<pc, outcome, question, max_iterations, iteration, messages, tool_results,
                   tool_calls_made, response, tool_idx, tool_response_content,
                   args, cache, graph, dispatches, store_calls, raised>>
    /\ UNCHANGED surroundings

\* client.messages.create raises e
EngineRaises(e) ==
    /\ pc = "engine"
    /\ engine_calls' = engine_calls + 1
    /\ pc' = "done"
    /\ outcome' = FailedToGenerate(e.text)
    /\ engine_exc' = e
    /\ UNCHANGED <<question, max_iterations, iteration, messages, tool_results,
                   tool_calls_made, response, tool_idx, tool_response_content,
                   args, cache, graph, dispatches, store_calls, raised>>
    /\ UNCHANGED surroundings

\* mutant: the dispatcher empties the cache of the Fact Store (clear_cache)
DispatchToolClearing(beh) ==
    /\ pc = "dispatch"
    /\ LET blocks == tool_use_blocks(response)
           tool_use == blocks[tool_idx]
           tried == route_tool_call(cache, graph, tool_use.name, tool_use.input, beh)
           call == execute_tool_call(cache, graph, tool_use.name, tool_use.input, beh)
           content == Append(tool_response_content,
                             [type |-> "tool_result", tool_use_id |-> tool_use.id,
                              content |-> Str(call.value)])
       IN  /\ tool_calls_made' = Append(tool_calls_made, tool_use.name)
           /\ dispatches' = dispatches + 1
           /\ store_calls' = store_calls + call.store_calls
           /\ raised' = Append(raised, tried.exc)
           /\ IF call.raised
              THEN /\ pc' = "done"
                   /\ outcome' = FailedToGenerate(call.exc.text)
                   /\ UNCHANGED <<tool_results, tool_response_content, tool_idx,
                                  messages, iteration>>
              ELSE /\ tool_results' = Append(tool_results, call.value)
                   /\ tool_response_content' = content
                   /\ IF tool_idx < Len(blocks)
                      THEN /\ tool_idx' = tool_idx + 1
                           /\ UNCHANGED <<messages, iteration, pc, outcome>>
                      ELSE /\ tool_idx' = tool_idx
                           /\ messages' = messages \o
                                  << [role |-> "assistant", content |-> response],
                                     [role |-> "user", content |-> content] >>
                           /\ iteration' = iteration + 1
                           /\ IF InRange(iteration + 1, max_iterations)
                              THEN pc' = "engine" /\ UNCHANGED outcome
                              ELSE pc' = "done" /\ outcome' = MaxIterationsError(max_iterations)
    /\ cache' = <<>>
    /\ UNCHANGED <<question, max_iterations, response, args, graph, engine_calls,
                   engine_exc>>
    /\ UNCHANGED surroundings

\* mutant: the engine's request is not appended to the history
DispatchToolRequestUnrecorded(beh) ==
    /\ pc = "dispatch"
    /\ LET blocks == tool_use_blocks(response)
           tool_use == blocks[tool_idx]
           tried == route_tool_call(cache, graph, tool_use.name, tool_use.input, beh)
           call == execute_tool_call(cache, graph, tool_use.name, tool_use.input, beh)
           content == Append(tool_response_content,
                             [type |-> "tool_result", tool_use_id |-> tool_use.id,
                              content |-> Str(call.value)])
       IN  /\ tool_calls_made' = Append(tool_calls_made, tool_use.name)
           /\ dispatches' = dispatches + 1
           /\ store_calls' = store_calls + call.store_calls
           /\ raised' = Append(raised, tried.exc)
           /\ IF call.raised
              THEN /\ pc' = "done"
                   /\ outcome' = FailedToGenerate(call.exc.text)
                   /\ UNCHANGED <<tool_results, tool_response_content, tool_idx,
                                  messages, iteration>>
              ELSE /\ tool_results' = Append(tool_results, call.value)
                   /\ tool_response_content' = content
                   /\ IF tool_idx < Len(blocks)
                      THEN /\ tool_idx' = tool_idx + 1
                           /\ UNCHANGED <<messages, iteration, pc, outcome>>
                      ELSE /\ tool_idx' = tool_idx
                           /\ messages' = messages \o
                                  << [role |-> "user", content |-> content] >>
                           /\ iteration' = iteration + 1
                           /\ IF InRange(iteration + 1, max_iterations)
                              THEN pc' = "engine" /\ UNCHANGED outcome
                              ELSE pc' = "done" /\ outcome' = MaxIterationsError(max_iterations)
    /\ UNCHANGED <<question, max_iterations, response, args, cache, graph, engine_calls,
                   engine_exc>>
    /\ UNCHANGED surroundings

\* one pass of `for tool_use in tool_use_blocks`, the store behaving as beh;
\* after the last block: the two messages, and the next iteration or the end.
\* An exception that leaves _execute_tool_call reaches the handler of ask.
DispatchTool(beh) ==
    /\ pc = "dispatch"
    /\ LET blocks == tool_use_blocks(response)
           tool_use == blocks[tool_idx]
           tried == route_tool_call(cache, graph, tool_use.name, tool_use.input, beh)
           call == execute_tool_call(cache, graph, tool_use.name, tool_use.input, beh)
           content == Append(tool_response_content,
                             [type |-> "tool_result", tool_use_id |-> tool_use.id,
                              content |-> Str(call.value)])
       IN  /\ tool_calls_made' = Append(tool_calls_made, tool_use.name)
           /\ dispatches' = dispatches + 1
           /\ store_calls' = store_calls + call.store_calls
           /\ raised' = Append(raised, tried.exc)
           /\ IF call.raised
              THEN /\ pc' = "done"
                   /\ outcome' = FailedToGenerate(call.exc.text)
                   /\ UNCHANGED <<tool_results, tool_response_content, tool_idx,
                                  messages, iteration>>
              ELSE /\ tool_results' = Append(tool_results, call.value)
                   /\ tool_response_content' = content
                   /\ IF tool_idx < Len(blocks)
                      THEN /\ tool_idx' = tool_idx + 1
                           /\ UNCHANGED <<messages, iteration, pc, outcome>>
                      ELSE /\ tool_idx' = tool_idx
                           /\ messages' = messages \o
                                  << [role |-> "assistant", content |-> response],
                                     [role |-> "user", content |-> content] >>
                           /\ iteration' = iteration + 1
                           /\ IF InRange(iteration + 1, max_iterations)
                              THEN pc' = "engine" /\ UNCHANGED outcome
                              ELSE pc' = "done" /\ outcome' = MaxIterationsError(max_iterations)
    /\ UNCHANGED <<question, max_iterations, response, args, cache, graph, engine_calls,
                   engine_exc>>
    /\ UNCHANGED surroundings

\* _extract_citations_from_response called on its own (as the unit tests do)
ExtractCall ==
    /\ pc = "extract"
    /\ pc' = "done"
    /\ outcome' = LET extracted == extract_citations_from_response("test", tool_results)
                  IN  IF extracted.raised
                      THEN Raised("ValidationError", "1 validation error for Citation")
                      ELSE Returned(extracted.citations)
    /\ UNCHANGED <<question, max_iterations, iteration, messages, tool_results,
                   tool_calls_made, response, tool_idx, tool_response_content, args,
                   cache, graph, engine_calls, dispatches, store_calls, raised, engine_exc>>
    /\ UNCHANGED surroundings

----------------------------------------------------------------------------
(* The surroundings of one ask(): the other ask() coroutines on the same   *)
(* agent, the chat endpoint, and the threads that call FactsService        *)

\* concurrent or successive ask() invocations on one agent
MaxInvocations == 2
Invocations == 1..MaxInvocations

\* the locals (and call counts) of an ask() that has not started
InitialFrame ==
    [pc |-> "idle", question |-> Question(0, 0, 0), max_iterations |-> 0, iteration |-> 0,
     messages |-> <<>>, tool_results |-> <<>>, tool_calls_made |-> <<>>, response |-> <<>>,
     tool_idx |-> 0, tool_response_content |-> <<>>,
     args |-> [question |-> Question(0, 0, 0), max_iterations |-> Omitted],
     outcome |-> NoOutcome, engine_calls |-> 0, dispatches |-> 0, store_calls |-> 0,
     raised |-> <<>>, engine_exc |-> NoExc]

InitialTasks == [running |-> 1, frames |-> [k \in Invocations |-> InitialFrame]]

\* no response sent yet
NoResponse == [status_code |-> 0, detail |-> "", body |-> Nothing]

\* threads that call FactsService
MaxThreads == 2
Threads == 1..MaxThreads
NoThread == 0

RegistryNames == { "boston_rpp", "boston_fees" }

\* a thread that is in no call of FactsService
IdleThread ==
    [pc |-> "idle", op |-> "", name |-> "", outer |-> "", calls |-> 0,
     registry |-> Nothing, result |-> Nothing]
InitialThreads == [t \in Threads |-> IdleThread]

\* the YAML files of facts_dir: each passes FactsRegistry validation on its own
InitialDisk ==
    [name \in RegistryNames |->
        IF name = "boston_rpp" THEN <<FactA, FactB>> ELSE <<FactA2>>]

\* nothing read from disk, nothing invalidated, nothing returned
NoLoads ==
    [reads |-> [name \in RegistryNames |-> 0],
     epoch |-> [name \in RegistryNames |-> 0],
     serial |-> 0,
     returned |-> {}]

\* Neo4jClient(): the class attributes _driver = None, _config = None; no call yet
NoCall ==
    [op |-> "", kind |-> "none", type |-> "", message |-> "", value |-> Nothing,
     attempted |-> FALSE, before |-> Nothing]
NewClient ==
    [driver |-> Nothing, config |-> Nothing, created |-> 0, calls |-> 0,
     failures |-> 0, verified |-> FALSE, last |-> NoCall]

----------------------------------------------------------------------------
(* Specifications                                                          *)

\* the calls of Spec: every question with the default bound, and one valid
\* question with bounds on both sides of 1 and 20
Questions ==
    { Question(0, 0, 0), Question(3, 0, 0), Question(0, 1, 0), Question(1, 1, 1),
      Question(0, MaxQuestionLength, 0), Question(0, MaxQuestionLength + 1, 0),
      Question(1, MaxQuestionLength - 1, 1) }
Bounds ==
    { IntArg(-1), IntArg(0), IntArg(1), IntArg(2), IntArg(MaxIterationsLimit),
      IntArg(MaxIterationsLimit + 1), FloatArg(DefaultMaxIterations) }
AskInputs ==
    { [question |-> q, max_iterations |-> Omitted] : q \in Questions }
    \cup { [question |-> Question(0, 1, 0), max_iterations |-> b] : b \in Bounds }
    \cup { [question |-> Question(0, 0, 0), max_iterations |-> IntArg(0)],
           [question |-> Question(0, MaxQuestionLength + 1, 0), max_iterations |-> IntArg(0)] }

\* the calls of SpecIter: one question, every bound from 0 to 21
IterInputs ==
    { [question |-> Question(0, 1, 0), max_iterations |-> IntArg(n)] :
        n \in (MinIterations - 1)..(MaxIterationsLimit + 1) }

Init ==
    /\ pc = "idle"
    /\ question = Question(0, 0, 0)
    /\ max_iterations = 0
    /\ iteration = 0
    /\ messages = <<>>
    /\ tool_results = <<>>
    /\ tool_calls_made = <<>>
    /\ response = <<>>
    /\ tool_idx = 0
    /\ tool_response_content = <<>>
    /\ args = [question |-> Question(0, 0, 0), max_iterations |-> Omitted]
    /\ outcome = NoOutcome
    /\ cache = InitialCache
    /\ graph = InitialGraph
    /\ engine_calls = 0
    /\ dispatches = 0
    /\ store_calls = 0
    /\ raised = <<>>
    /\ engine_exc = NoExc
    /\ tasks = InitialTasks
    /\ http = NoResponse
    /\ neo4j = NewClient
    /\ lock = NoThread
    /\ threads = InitialThreads
    /\ disk = InitialDisk
    /\ loads = NoLoads

AskCall == \E in \in AskInputs : Ask(in.question, in.max_iterations)
EngineAnswer == \E content \in EngineContents(Len(tool_calls_made)) : EngineResponds(content)
EngineFailure == \E e \in EngineExceptions : EngineRaises(e)
Dispatch == \E beh \in StoreBehaviours : DispatchTool(beh)

Next == AskCall \/ EngineAnswer \/ EngineFailure \/ Dispatch

Spec == Init /\ [][Next]_vars

\* the engine never gives a final answer, the stores answer every lookup
IterAskCall == \E in \in IterInputs : Ask(in.question, in.max_iterations)
IterEngineAnswer == \E content \in IterContents(engine_calls) : EngineResponds(content)
IterDispatch == DispatchTool([raises |-> FALSE, exc |-> NoExc])

NextIter == IterAskCall \/ IterEngineAnswer \/ IterDispatch

SpecIter == Init /\ [][NextIter]_vars

----------------------------------------------------------------------------
(* SpecExtract: the Citation Extractor on lists of tool results that need  *)
(* not come from the dispatcher                                            *)

\* fact dicts: three well formed, three that lack a key, one whose text is
\* present and empty
FactDatas ==
    { model_dump(FactA), model_dump(FactA2),
      [id |-> "rpp.b", text |-> "One proof of residency", source_url |-> "https://boston.gov"],
      [text |-> "Permits are free", source_url |-> "https://boston.gov/rpp"],
      [id |-> "rpp.a", text |-> "Permits are free"],
      [id |-> "rpp.b", source_url |-> "https://boston.gov/rpp", source_section |-> "Proof"],
      [id |-> "rpp.c", text |-> "", source_url |-> "https://boston.gov/rpp"] }

\* tool results that hold k entries (k facts, or one something else)
ResultsOfSize(k) ==
    { [facts |-> fs] : fs \in [1..k -> FactDatas] }
    \cup IF k = 1
         THEN { [fact |-> d] : d \in FactDatas }
              \cup { [fact |-> Nothing], [facts |-> <<>>],
                     [error |-> "internal_error", tool |-> "query_facts", message |-> SanitizedMessage],
                     [requirements |-> DumpAll(InitialGraph.requirements)] }
         ELSE {}

RECURSIVE ResultLists(_)
\* the lists of tool results that hold n entries in all
ResultLists(n) ==
    IF n = 0 THEN { <<>> }
    ELSE UNION { { <<r>> \o rest : r \in ResultsOfSize(k), rest \in ResultLists(n - k) } :
                 k \in 1..n }

ExtractInputs == UNION { ResultLists(n) : n \in 0..MaxResults }

InitExtract ==
    /\ pc = "extract"
    /\ tool_results \in ExtractInputs
    /\ question = Question(0, 0, 0)
    /\ max_iterations = 0
    /\ iteration = 0
    /\ messages = <<>>
    /\ tool_calls_made = <<>>
    /\ response = <<>>
    /\ tool_idx = 0
    /\ tool_response_content = <<>>
    /\ args = [question |-> Question(0, 0, 0), max_iterations |-> Omitted]
    /\ outcome = NoOutcome
    /\ cache = InitialCache
    /\ graph = InitialGraph
    /\ engine_calls = 0
    /\ dispatches = 0
    /\ store_calls = 0
    /\ raised = <<>>
    /\ engine_exc = NoExc
    /\ tasks = InitialTasks
    /\ http = NoResponse
    /\ neo4j = NewClient
    /\ lock = NoThread
    /\ threads = InitialThreads
    /\ disk = InitialDisk
    /\ loads = NoLoads

NextExtract == ExtractCall

SpecExtract == InitExtract /\ [][NextExtract]_vars

----------------------------------------------------------------------------
(* SpecPair: several ask() coroutines on one agent, interleaved by the     *)
(* event loop. The variables of ask hold the locals of the coroutine that  *)
(* runs; tasks.frames holds those of the suspended ones.                   *)

\* the locals of the running coroutine
Frame ==
    [pc |-> pc,
     question |-> question,
     max_iterations |-> max_iterations,
     iteration |-> iteration,
     messages |-> messages,
     tool_results |-> tool_results,
     tool_calls_made |-> tool_calls_made,
     response |-> response,
     tool_idx |-> tool_idx,
     tool_response_content |-> tool_response_content,
     args |-> args,
     outcome |-> outcome,
     engine_calls |-> engine_calls,
     dispatches |-> dispatches,
     store_calls |-> store_calls,
     raised |-> raised,
     engine_exc |-> engine_exc]

\* mutant: the two lists are attributes of the agent, not locals of ask
ResumeSharedLists(saved, live) ==
    [saved EXCEPT !.tool_results = live.tool_results,
                  !.tool_calls_made = live.tool_calls_made]

\* what a coroutine finds in its locals when it is resumed: what it left,
\* since ask keeps everything in locals created per call
Resume(saved, live) == saved

\* the event loop suspends the running coroutine and resumes coroutine j
Switch(j) ==
    /\ j # tasks.running
    /\ LET next == Resume(tasks.frames[j], Frame)
       IN
           /\ pc' = next.pc
           /\ question' = next.question
           /\ max_iterations' = next.max_iterations
           /\ iteration' = next.iteration
           /\ messages' = next.messages
           /\ tool_results' = next.tool_results
           /\ tool_calls_made' = next.tool_calls_made
           /\ response' = next.response
           /\ tool_idx' = next.tool_idx
           /\ tool_response_content' = next.tool_response_content
           /\ args' = next.args
           /\ outcome' = next.outcome
           /\ engine_calls' = next.engine_calls
           /\ dispatches' = next.dispatches
           /\ store_calls' = next.store_calls
           /\ raised' = next.raised
           /\ engine_exc' = next.engine_exc
    /\ tasks' = [running |-> j, frames |-> [tasks.frames EXCEPT ![tasks.running] = Frame]]
    /\ UNCHANGED <<cache, graph, http, lock, threads, disk, loads, neo4j>>

\* invocation k asks its own question and its engine asks for its own tool
PairQuestion(k) == Question(0, k, 0)
PairRequest(k) ==
    IF k = 1 THEN [name |-> "query_facts", input |-> [query_type |-> "by_id", fact_id |-> "rpp.a"]]
    ELSE IF k = 2
    THEN [name |-> "query_graph", input |-> [query_type |-> "get_process_requirements", process_id |-> "p1"]]
    ELSE [name |-> "tool_" \o ToString(k), input |-> [query_type |-> "all"]]
PairContents(k) == { <<Text(TextA)>>, Stamp(<<PairRequest(k)>>) }

PairAskCall == Ask(PairQuestion(tasks.running), IntArg(2))
PairEngineAnswer == \E content \in PairContents(tasks.running) : EngineResponds(content)
PairDispatch == \E beh \in StoreBehaviours : DispatchTool(beh)
SwitchTask == \E j \in Invocations : Switch(j)

NextPair == PairAskCall \/ PairEngineAnswer \/ PairDispatch \/ SwitchTask

SpecPair == Init /\ [][NextPair]_vars

----------------------------------------------------------------------------
(* SpecStore: threads calling FactsService. _cache is a dict, kept here as *)
(* the sequence of its values in insertion order; a registry object is     *)
(* [name, facts, serial], serial telling the objects of two parses apart.  *)

\* calls made on the service, by all threads together
MaxCalls == 3

RECURSIVE CallsMade(_, _)
\* the calls the threads 1..n have made
CallsMade(th, n) == IF n = 0 THEN 0 ELSE th[n].calls + CallsMade(th, n - 1)

InCache(c, name) == \E i \in 1..Len(c) : c[i].name = name
Cached(c, name) == c[CHOOSE i \in 1..Len(c) : c[i].name = name]
\* self._cache[registry_name] = registry
Put(c, name, registry) ==
    IF InCache(c, name)
    THEN [i \in 1..Len(c) |-> IF c[i].name = name THEN registry ELSE c[i]]
    ELSE Append(c, registry)
\* del self._cache[registry_name]
Remove(c, name) == SelectSeq(c, LAMBDA r : r.name # name)

\* mutant: no lock around the cache
CanAcquireAlways(l) == TRUE
\* `with self._lock`: a Lock is taken only when no thread holds it
CanAcquire(l) == l = NoThread

StoreOps ==
    { "load_registry", "reload_registry", "clear_cache",
      "get_fact_by_id", "get_facts_by_prefix", "get_all_facts" }

\* thread t calls a method of the service
StartCall(t, op, name) ==
    /\ threads[t].pc = "idle"
    /\ CallsMade(threads, MaxThreads) < MaxCalls
    /\ (op \in {"load_registry", "reload_registry"}) <=> (name \in RegistryNames)
    /\ threads' = [threads EXCEPT ![t] =
            [pc |-> "acquire", op |-> op, name |-> name, outer |-> op,
             calls |-> @.calls + 1, registry |-> Nothing, result |-> Nothing]]
    /\ UNCHANGED <<cache, lock, disk, loads>>

\* `with self._lock:` is entered
Acquire(t) ==
    /\ threads[t].pc = "acquire"
    /\ CanAcquire(lock)
    /\ lock' = t
    /\ threads' = [threads EXCEPT ![t].pc = "locked"]
    /\ UNCHANGED <<cache, disk, loads>>

\* load_registry: `if registry_name in self._cache: return self._cache[...]`
LoadCheck(t) ==
    /\ threads[t].pc = "locked"
    /\ threads[t].op = "load_registry"
    /\ IF InCache(cache, threads[t].name)
       THEN /\ threads' = [threads EXCEPT ![t].pc = "idle",
                                           ![t].result = Cached(cache, threads[t].name)]
            /\ lock' = NoThread
            /\ loads' = [loads EXCEPT !.returned = @ \cup
                            { [name |-> threads[t].name, epoch |-> loads.epoch[threads[t].name],
                               serial |-> Cached(cache, threads[t].name).serial] }]
       ELSE /\ threads' = [threads EXCEPT ![t].pc = "read"]
            /\ UNCHANGED <<lock, loads>>
    /\ UNCHANGED <<cache, disk>>

\* load_registry: the file is opened, parsed and validated
LoadRead(t) ==
    /\ threads[t].pc = "read"
    /\ threads' = [threads EXCEPT ![t].pc = "store",
                                   ![t].registry = [name |-> threads[t].name,
                                                    facts |-> disk[threads[t].name],
                                                    serial |-> loads.serial + 1]]
    /\ loads' = [loads EXCEPT !.serial = @ + 1, !.reads[threads[t].name] = @ + 1]
    /\ UNCHANGED <<cache, lock, disk>>

\* load_registry: `self._cache[registry_name] = registry; return registry`
LoadStore(t) ==
    /\ threads[t].pc = "store"
    /\ cache' = Put(cache, threads[t].name, threads[t].registry)
    /\ threads' = [threads EXCEPT ![t].pc = "idle", ![t].result = threads[t].registry]
    /\ lock' = NoThread
    /\ loads' = [loads EXCEPT !.returned = @ \cup
                    { [name |-> threads[t].name, epoch |-> loads.epoch[threads[t].name],
                       serial |-> threads[t].registry.serial] }]
    /\ UNCHANGED disk

\* reload_registry: the entry is deleted under the lock; load_registry follows
ReloadDelete(t) ==
    /\ threads[t].pc = "locked"
    /\ threads[t].op = "reload_registry"
    /\ cache' = Remove(cache, threads[t].name)
    /\ loads' = IF InCache(cache, threads[t].name)
                THEN [loads EXCEPT !.epoch[threads[t].name] = @ + 1,
                                   !.reads[threads[t].name] = 0]
                ELSE loads
    /\ lock' = NoThread
    /\ threads' = [threads EXCEPT
                      ![t].pc = "acquire",
                      ![t].op = "load_registry",
                      \* the version this reload takes out of the cache, if any
                      ![t].registry = IF InCache(cache, threads[t].name)
                                      THEN Cached(cache, threads[t].name)
                                      ELSE Nothing]
    /\ UNCHANGED disk

\* clear_cache
ClearCache(t) ==
    /\ threads[t].pc = "locked"
    /\ threads[t].op = "clear_cache"
    /\ cache' = <<>>
    /\ loads' = [loads EXCEPT
                    !.epoch = [name \in RegistryNames |->
                                 IF InCache(cache, name) THEN @[name] + 1 ELSE @[name]],
                    !.reads = [name \in RegistryNames |->
                                 IF InCache(cache, name) THEN 0 ELSE @[name]]]
    /\ lock' = NoThread
    /\ threads' = [threads EXCEPT ![t].pc = "idle"]
    /\ UNCHANGED disk

\* get_all_facts
GetAllFacts(t) ==
    /\ threads[t].pc = "locked"
    /\ threads[t].op = "get_all_facts"
    /\ threads' = [threads EXCEPT ![t].pc = "idle", ![t].result = get_all_facts(cache)]
    /\ lock' = NoThread
    /\ UNCHANGED <<cache, disk, loads>>

\* get_fact_by_id("rpp.a")
GetFactById(t) ==
    /\ threads[t].pc = "locked"
    /\ threads[t].op = "get_fact_by_id"
    /\ threads' = [threads EXCEPT ![t].pc = "idle", ![t].result = get_fact_by_id(cache, "rpp.a")]
    /\ lock' = NoThread
    /\ UNCHANGED <<cache, disk, loads>>

\* get_facts_by_prefix("rpp.")
GetFactsByPrefix(t) ==
    /\ threads[t].pc = "locked"
    /\ threads[t].op = "get_facts_by_prefix"
    /\ threads' = [threads EXCEPT ![t].pc = "idle",
                                   ![t].result = get_facts_by_prefix(cache, "rpp.")]
    /\ lock' = NoThread
    /\ UNCHANGED <<cache, disk, loads>>

\* a service created on a facts_dir with two registry files, nothing loaded
InitStore ==
    /\ pc = InitialFrame.pc
    /\ question = InitialFrame.question
    /\ max_iterations = InitialFrame.max_iterations
    /\ iteration = InitialFrame.iteration
    /\ messages = InitialFrame.messages
    /\ tool_results = InitialFrame.tool_results
    /\ tool_calls_made = InitialFrame.tool_calls_made
    /\ response = InitialFrame.response
    /\ tool_idx = InitialFrame.tool_idx
    /\ tool_response_content = InitialFrame.tool_response_content
    /\ args = InitialFrame.args
    /\ outcome = InitialFrame.outcome
    /\ engine_calls = InitialFrame.engine_calls
    /\ dispatches = InitialFrame.dispatches
    /\ store_calls = InitialFrame.store_calls
    /\ raised = InitialFrame.raised
    /\ engine_exc = InitialFrame.engine_exc
    /\ cache = <<>>
    /\ graph = InitialGraph
    /\ tasks = InitialTasks
    /\ http = NoResponse
    /\ neo4j = NewClient
    /\ lock = NoThread
    /\ threads = InitialThreads
    /\ disk = InitialDisk
    /\ loads = NoLoads

\* what FactsService does not touch
outside_service == <<ask_vars, graph, tasks, http, neo4j>>

ThreadCalls ==
    /\ \E t \in Threads : \E op \in StoreOps : \E name \in RegistryNames \cup {""} :
          StartCall(t, op, name)
    /\ UNCHANGED outside_service
ThreadAcquires == (\E t \in Threads : Acquire(t)) /\ UNCHANGED outside_service
ThreadChecks == (\E t \in Threads : LoadCheck(t)) /\ UNCHANGED outside_service
ThreadReads == (\E t \in Threads : LoadRead(t)) /\ UNCHANGED outside_service
ThreadStores == (\E t \in Threads : LoadStore(t)) /\ UNCHANGED outside_service
ThreadDeletes == (\E t \in Threads : ReloadDelete(t)) /\ UNCHANGED outside_service
ThreadClears == (\E t \in Threads : ClearCache(t)) /\ UNCHANGED outside_service
ThreadGetsAll == (\E t \in Threads : GetAllFacts(t)) /\ UNCHANGED outside_service
ThreadGetsById == (\E t \in Threads : GetFactById(t)) /\ UNCHANGED outside_service
ThreadGetsByPrefix == (\E t \in Threads : GetFactsByPrefix(t)) /\ UNCHANGED outside_service

NextStore ==
    \/ ThreadCalls \/ ThreadAcquires \/ ThreadChecks \/ ThreadReads
    \/ ThreadStores \/ ThreadDeletes \/ ThreadClears \/ ThreadGetsAll
    \/ ThreadGetsById \/ ThreadGetsByPrefix

SpecStore == InitStore /\ [][NextStore]_vars

----------------------------------------------------------------------------
(* SpecChat: the chat endpoint (api/routes/chat.py, send_message) around   *)
(* ask. The agent is the real one, or a stand-in that raises (as the       *)
(* endpoint tests use).                                                    *)

\* ChatRequest.message: 1 to 10000 characters
ChatRequest(message) == QLen(message) >= 1 /\ QLen(message) <= 10000

UpperCase == "ABCDEFGHIJKLMNOPQRSTUVWXYZ"
LowerCase == "abcdefghijklmnopqrstuvwxyz"
lower_char(ch) ==
    IF \E i \in 1..Len(UpperCase) : SubSeq(UpperCase, i, i) = ch
    THEN LET i == CHOOSE i \in 1..Len(UpperCase) : SubSeq(UpperCase, i, i) = ch
         IN  SubSeq(LowerCase, i, i)
    ELSE ch

\* mutant: the message is compared as it is
lower_unchanged(text) == text

RECURSIVE lower(_)
\* str.lower()
lower(text) ==
    IF text = "" THEN ""
    ELSE lower_char(SubSeq(text, 1, 1)) \o lower(SubSeq(text, 2, Len(text)))

\* `keyword in error_str`
Contains(text, keyword) ==
    \E i \in 1..(Len(text) - Len(keyword) + 1) : SubSeq(text, i, i + Len(keyword) - 1) = keyword

ConnectivityKeywords == { "connection", "timeout", "unavailable", "network" }

\* the classes an exception is an instance of
Bases(type) ==
    IF type = "ConnectionError" THEN { "ConnectionError", "GraphServiceError", "Exception" }
    ELSE IF type = "ValidationError" THEN { "ValidationError", "ValueError", "Exception" }
    ELSE { type, "Exception" }

HTTPException(status_code, detail) ==
    [status_code |-> status_code, detail |-> detail, body |-> Nothing]

\* send_message, given what agent.ask returned or raised
send_message(result) ==
    IF result.kind = "return"
    THEN [status_code |-> 200, detail |-> "", body |-> result.value]
    ELSE IF "ValueError" \in Bases(result.type)
         THEN HTTPException(400, result.message)
    ELSE IF "ConnectionError" \in Bases(result.type)
         THEN HTTPException(503, "Service temporarily unavailable. Please try again later.")
    ELSE IF "ConversationAgentError" \in Bases(result.type)
         THEN IF \E keyword \in ConnectivityKeywords : Contains(lower(result.message), keyword)
              THEN HTTPException(503, "Service temporarily unavailable. Please try again later.")
              ELSE HTTPException(500, "Failed to generate response. Please try again or rephrase your question.")
    ELSE HTTPException(500, "An unexpected error occurred. Please try again later.")

\* what a stand-in agent raises
StandInOutcomes ==
    { Raised("ValueError", "Question cannot be empty"),
      Raised("ConnectionError", "Database connection failed"),
      Raised("GraphServiceError", "Database error: connection reset"),
      Raised("RuntimeError", "Unexpected error"),
      Raised("ConversationAgentError", "Failed to generate response"),
      Raised("ConversationAgentError", "Connection timeout"),
      Raised("ConversationAgentError", "Network error occurred"),
      Raised("ConversationAgentError", "Failed to generate response: Request timed out."),
      Raised("ConversationAgentError", "No text response from agent"),
      MaxIterationsError(DefaultMaxIterations) }

\* agent.ask(request.message) on the real agent
ChatAsk(message) ==
    /\ ChatRequest(message)
    /\ Ask(message, Omitted)

\* agent.ask(request.message) on a stand-in
StandInAsk(result) ==
    /\ pc = "idle"
    /\ pc' = "done"
    /\ outcome' = result
    /\ UNCHANGED <<question, max_iterations, iteration, messages, tool_results,
                   tool_calls_made, response, tool_idx, tool_response_content, args,
                   cache, graph, engine_calls, dispatches, store_calls, raised, engine_exc>>
    /\ UNCHANGED surroundings

\* the endpoint answers
Respond ==
    /\ pc = "done"
    /\ http = NoResponse
    /\ http' = send_message(outcome)
    /\ UNCHANGED <<ask_vars, cache, graph, tasks, lock, threads, disk, loads, neo4j>>

\* the engine answers with text, with nothing, or asks for one lookup; the
\* stores answer or lose their connection
ChatRequests ==
    { [name |-> "query_facts", input |-> [query_type |-> "by_id", fact_id |-> "rpp.a"]],
      [name |-> "query_graph", input |-> [query_type |-> "get_process_requirements", process_id |-> "p1"]] }
ChatContents == { <<>>, <<Text(TextA)>> } \cup { Stamp(<<request>>) : request \in ChatRequests }
ChatBehaviours ==
    { [raises |-> FALSE, exc |-> NoExc],
      [raises |-> TRUE, exc |-> [type |-> "ConnectionError",
                                 text |-> "Database connection failed: ServiceUnavailable"]] }

ChatAskCall == \E message \in Questions : ChatAsk(message)
ChatStandIn == \E result \in StandInOutcomes : StandInAsk(result)
ChatEngineAnswer == \E content \in ChatContents : EngineResponds(content)
ChatDispatch == \E beh \in ChatBehaviours : DispatchTool(beh)

NextChat ==
    ChatAskCall \/ ChatStandIn \/ ChatEngineAnswer \/ EngineFailure \/ ChatDispatch \/ Respond

SpecChat == Init /\ [][NextChat]_vars

\* the same behaviours, with the event loop resuming ask whenever it can
SpecFair == Init /\ [][Next]_vars /\ WF_vars(Next)

----------------------------------------------------------------------------
(* What the claims speak about                                             *)

\* ask passed its validation
Validated == pc \in {"engine", "dispatch"} \/ (pc = "done" /\ outcome.type # "ValueError")
Succeeded == pc = "done" /\ outcome.kind = "return"
\* completed rounds of tool dispatch, read off the message history
Rounds == IF messages = <<>> THEN 0 ELSE (Len(messages) - 1) \div 2

RECURSIVE HistoryBlocks(_)
\* the tool_result blocks of the message history, in order
HistoryBlocks(msgs) ==
    IF Len(msgs) < 3 THEN <<>>
    ELSE HistoryBlocks(SubSeq(msgs, 1, Len(msgs) - 2)) \o msgs[Len(msgs)].content

\* the fact objects one tool result carries
FactsOf(result) ==
    (IF "fact" \in DOMAIN result /\ result["fact"] # Nothing THEN << result["fact"] >> ELSE <<>>)
    \o (IF "facts" \in DOMAIN result THEN result["facts"] ELSE <<>>)

RECURSIVE FactOccurrences(_)
\* every fact object of a list of tool results, in call order
FactOccurrences(results) ==
    IF results = <<>> THEN <<>>
    ELSE FactOccurrences(SubSeq(results, 1, Len(results) - 1)) \o FactsOf(results[Len(results)])

\* index of the first entry of `facts` with this id
FirstIndex(facts, id) == CHOOSE i \in 1..Len(facts) :
    /\ Get(facts[i], "id") = id
    /\ \A j \in 1..(i - 1) : Get(facts[j], "id") # id

\* the ids of `facts` in the order of their first occurrence
FirstOccurrenceIds(facts) ==
    LET firsts == { i \in 1..Len(facts) : FirstIndex(facts, Get(facts[i], "id")) = i }
        Rank(i) == Cardinality({ j \in firsts : j <= i })
    IN  [ n \in 1..Cardinality(firsts) |->
            Get(facts[CHOOSE i \in firsts : Rank(i) = n], "id") ]

CitationIds(citations) == [ n \in 1..Len(citations) |-> citations[n].fact_id ]

----------------------------------------------------------------------------
----------------------------------------------------------------------------
(* C2. Whatever the engine and the stores do, one ask makes at most        *)
(* max_iterations engine calls (none when the arguments are rejected) and  *)
(* then ends, in success or failure; a success after k rounds of tool      *)
(* dispatch has made exactly k+1 engine calls, and k+1 <= max_iterations.  *)
C2_CallBudget ==
    /\ Validated => engine_calls <= max_iterations
    /\ ~Validated => engine_calls = 0
    /\ Succeeded => /\ engine_calls = Rounds + 1
                    /\ Rounds + 1 <= max_iterations
                    /\ Rounds = iteration

C2_BoundedThenTerminates ==
    /\ []C2_CallBudget
    /\ (pc # "idle") ~> (pc = "done")

\* a success on the last engine call the bound allows
C2_Witness ==
    /\ Succeeded
    /\ max_iterations = 2
    /\ Rounds = 1
    /\ engine_calls = 2

----------------------------------------------------------------------------
(* C3. ask fails with a validation error, having made no engine call and   *)
(* no tool dispatch, when the question is empty, only whitespace or longer *)
(* than 10,000 characters, or when max_iterations is outside [1, 20]; a    *)
(* question of exactly 10,000 characters and the bounds 1 and 20 pass, and *)
(* a call without max_iterations runs with 5.                              *)
C3_ValidationFailsFast ==
    LET q == args.question
        arg == args.max_iterations
        n == IF arg.given THEN arg.value ELSE 5
        bad_question == QLen(q) = 0 \/ q.body = 0 \/ QLen(q) > 10000
        bad_bound == n < 1 \/ n > 20
    IN  pc # "idle" =>
          /\ (bad_question \/ bad_bound) =>
                /\ pc = "done"
                /\ outcome.kind = "raise"
                /\ outcome.type = "ValueError"
                /\ engine_calls = 0
                /\ dispatches = 0
                /\ store_calls = 0
          /\ (~bad_question /\ ~bad_bound /\ arg.is_int) =>
                /\ outcome.type # "ValueError"
                /\ max_iterations = n
                /\ pc = "done" => engine_calls >= 1

\* 9,999 characters between two blanks: too long by one, rejected before any call
C3_Witness ==
    /\ pc = "done"
    /\ args.question = Question(1, 9999, 1)
    /\ ~args.max_iterations.given
    /\ outcome.type = "ValueError"
    /\ engine_calls = 0

----------------------------------------------------------------------------
----------------------------------------------------------------------------
(* C5. The error payload for a store exception does not depend on the      *)
(* exception: the tool result holds the kind internal_error, the tool name *)
(* and the fixed message, the history shows exactly that, and any two      *)
(* exceptions raised during the dispatch of the same request give the same *)
(* result.                                                                 *)
C5_ErrorPayloadIndependent ==
    LET shown == IF pc = "dispatch"
                 THEN HistoryBlocks(messages) \o tool_response_content
                 ELSE HistoryBlocks(messages)
        payload(tool_name) ==
            [error |-> "internal_error", tool |-> tool_name,
             message |-> "Tool execution failed due to an internal error. Please try rephrasing your query or contact support if the issue persists."]
    IN  /\ \A i \in 1..Len(raised) :
              raised[i] \in StoreExceptions =>
                /\ tool_results[i] = payload(tool_calls_made[i])
                /\ shown[i].content = Str(payload(tool_calls_made[i]))
        /\ \A request \in ToolRequests \cup {PrefixRequest} :
              \A e1, e2 \in StoreExceptions :
                execute_tool_call(cache, graph, request.name, request.input,
                                  [raises |-> TRUE, exc |-> e1]).value
                = execute_tool_call(cache, graph, request.name, request.input,
                                    [raises |-> TRUE, exc |-> e2]).value

\* the same tool failed twice, with two different exceptions, and the two
\* results are equal
C5_Witness ==
    /\ Len(raised) = 2
    /\ raised[1] \in StoreExceptions
    /\ raised[2] \in StoreExceptions
    /\ raised[1].type # raised[2].type
    /\ tool_calls_made[1] = tool_calls_made[2]
    /\ tool_results[1] = tool_results[2]
    /\ pc # "dispatch"

----------------------------------------------------------------------------
(* C6. Every citation of a successful ask has the id, source_url and text  *)
(* of a fact object that a query_facts call of this ask returned; a call   *)
(* that made only graph lookups returns no citation.                       *)
C6_CitationSoundness ==
    Succeeded =>
        \A n \in 1..Len(outcome.value.citations) :
            LET citation == outcome.value.citations[n]
            IN  \E i \in 1..Len(tool_results) :
                    /\ tool_calls_made[i] = "query_facts"
                    /\ \E k \in 1..Len(FactsOf(tool_results[i])) :
                          LET fact == FactsOf(tool_results[i])[k]
                          IN  /\ citation.fact_id = fact.id
                              /\ citation.url = fact.source_url
                              /\ citation.text = fact.text

\* a graph lookup returned a requirement (which names a fact and a source),
\* a fact lookup returned facts, and only the facts are cited
C6_Witness ==
    /\ Succeeded
    /\ Len(tool_results) = 2
    /\ "requirements" \in DOMAIN tool_results[1]
    /\ tool_results[1].requirements # <<>>
    /\ "fact" \in DOMAIN tool_results[2]
    /\ Len(outcome.value.citations) = 1

----------------------------------------------------------------------------
(* C7. However often a fact id is returned (in fact fields, in facts       *)
(* lists, over any number of calls), the citations hold exactly one entry  *)
(* for it, with the url, text and source_section of its first occurrence   *)
(* in call order.                                                          *)
C7_OneCitationPerFactId ==
    Succeeded =>
        LET facts == FactOccurrences(tool_results)
            citations == outcome.value.citations
        IN  \A k \in 1..Len(facts) :
                LET first == facts[FirstIndex(facts, facts[k].id)]
                    entries == { n \in 1..Len(citations) : citations[n].fact_id = facts[k].id }
                IN  /\ Cardinality(entries) = 1
                    /\ \A n \in entries :
                          /\ citations[n].url = first.source_url
                          /\ citations[n].text = first.text
                          /\ citations[n].source_section = first.source_section

\* one id returned three times, with two different texts: once alone, twice
\* in one list
C7_Witness ==
    /\ Succeeded
    /\ Len(tool_results) = 2
    /\ "fact" \in DOMAIN tool_results[1]
    /\ "facts" \in DOMAIN tool_results[2]
    /\ LET facts == FactOccurrences(tool_results)
       IN  /\ Cardinality({ k \in 1..Len(facts) : facts[k].id = "rpp.a" }) = 3
           /\ \E k \in 1..Len(facts) : facts[k].id = "rpp.a" /\ facts[k].text # facts[1].text
    /\ Len(outcome.value.citations) = 2

----------------------------------------------------------------------------
(* C8. The citations are in the order in which their fact ids first occur  *)
(* when the tool results are scanned in call order and each facts list     *)
(* front to back; without fact-bearing results there are none.             *)
C8_CitationOrder ==
    Succeeded =>
        /\ CitationIds(outcome.value.citations)
             = FirstOccurrenceIds(FactOccurrences(tool_results))
        /\ FactOccurrences(tool_results) = <<>> => outcome.value.citations = <<>>

\* a list of facts first, a single fact second
C8_Witness ==
    /\ Succeeded
    /\ Len(tool_results) = 2
    /\ "facts" \in DOMAIN tool_results[1]
    /\ "fact" \in DOMAIN tool_results[2]
    /\ CitationIds(outcome.value.citations) = <<"rpp.a", "rpp.b">>

----------------------------------------------------------------------------
(* C9. A fact object that lacks id, source_url or text gives no citation   *)
(* and does not make the extraction raise; the extraction goes on, so the  *)
(* citations are those of the remaining facts: one per id, first           *)
(* occurrence, in order.                                                   *)
HasAllKeys(fact_data) ==
    /\ "id" \in DOMAIN fact_data
    /\ "source_url" \in DOMAIN fact_data
    /\ "text" \in DOMAIN fact_data

C9_MalformedFactSkipped ==
    pc = "done" =>
        LET complete == SelectSeq(FactOccurrences(tool_results), HasAllKeys)
        IN  /\ outcome.kind = "raise" =>
                  \E k \in 1..Len(complete) : complete[k].text = ""
            /\ outcome.kind = "return" =>
                  /\ CitationIds(outcome.value) = FirstOccurrenceIds(complete)
                  /\ \A n \in 1..Len(outcome.value) :
                        LET first == complete[FirstIndex(complete, outcome.value[n].fact_id)]
                        IN  /\ outcome.value[n].text = first.text
                            /\ outcome.value[n].source_section = Get(first, "source_section")

\* a list whose first fact lacks a key and whose second fact is cited
C9_Witness ==
    /\ pc = "done"
    /\ outcome.kind = "return"
    /\ Len(tool_results) = 1
    /\ "facts" \in DOMAIN tool_results[1]
    /\ Len(tool_results[1].facts) = 2
    /\ ~HasAllKeys(tool_results[1].facts[1])
    /\ HasAllKeys(tool_results[1].facts[2])
    /\ Len(outcome.value) = 1

----------------------------------------------------------------------------
(* C10. A response without tool requests ends the loop.                    *)

\* the last engine call returned a response without tool requests
ZeroToolResponse ==
    /\ engine_calls >= 1
    /\ engine_exc = NoExc
    /\ tool_use_blocks(response) = <<>>

RECURSIVE Concatenated(_)
\* the texts of the blocks, one after the other
Concatenated(blocks) ==
    IF blocks = <<>> THEN ""
    ELSE Concatenated(SubSeq(blocks, 1, Len(blocks) - 1)) \o blocks[Len(blocks)].text

\* C10 as stated: a response without tool requests ends the loop, and ask
\* returns success with the concatenated text segments as the answer; on the
\* first engine call the citations and tool_calls_made are empty.
C10_Original ==
    ZeroToolResponse =>
        /\ pc = "done"
        /\ ~ENABLED Next
        /\ outcome.kind = "return"
        /\ outcome.value.answer = Concatenated(SelectSeq(response, IsText))
        /\ engine_calls = 1 =>
              /\ outcome.value.citations = <<>>
              /\ outcome.value.tool_calls_made = <<>>

\* C10, amended: a response without tool requests ends the loop with no
\* further engine call or dispatch; ask returns success, with the in-order
\* concatenation of the text segments as the answer, when that concatenation
\* is not empty, and fails with a ConversationAgentError when the response
\* has no text segment or only empty ones; a success on the first engine
\* call has no citations and no tool calls.
C10_ZeroToolResponseEndsLoop ==
    ZeroToolResponse =>
        LET text_blocks == SelectSeq(response, IsText)
        IN  /\ pc = "done"
            /\ ~ENABLED Next
            /\ engine_calls = Rounds + 1
            /\ dispatches = Len(tool_calls_made)
            /\ IF Concatenated(text_blocks) # ""
               THEN /\ outcome.kind = "return"
                    /\ outcome.value.answer = Concatenated(text_blocks)
                    /\ outcome.value.tool_calls_made = tool_calls_made
                    /\ engine_calls = 1 =>
                          /\ outcome.value.citations = <<>>
                          /\ outcome.value.tool_calls_made = <<>>
               ELSE /\ outcome.kind = "raise"
                    /\ outcome.type = "ConversationAgentError"
                    /\ text_blocks = <<>> => outcome.message = "No text response from agent"

\* the refusal in two segments, on the first engine call
C10_Witness ==
    /\ Succeeded
    /\ engine_calls = 1
    /\ Len(response) = 2
    /\ outcome.value.answer =
          "I don't have verified information about that. Please contact the Parking Clerk."
    /\ outcome.value.citations = <<>>
    /\ outcome.value.tool_calls_made = <<>>

----------------------------------------------------------------------------
(* C11. tool_calls_made of a successful ask holds the name of every tool   *)
(* request of the engine, one entry per request, in dispatch order, with   *)
(* duplicates; its length is the number of dispatches, those that ended in *)
(* an error result included.                                               *)

RECURSIVE RequestedNames(_)
\* the names of the tool requests in the assistant messages of a history
RequestedNames(msgs) ==
    IF msgs = <<>> THEN <<>>
    ELSE LET last == msgs[Len(msgs)]
             requests == SelectSeq(last.content, IsToolUse)
         IN  RequestedNames(SubSeq(msgs, 1, Len(msgs) - 1))
             \o (IF last.role = "assistant"
                 THEN [n \in 1..Len(requests) |-> requests[n].name]
                 ELSE <<>>)

C11_ToolCallsMadeComplete ==
    Succeeded =>
        /\ outcome.value.tool_calls_made = RequestedNames(SubSeq(messages, 2, Len(messages)))
        /\ Len(outcome.value.tool_calls_made) = dispatches
        /\ Len(outcome.value.tool_calls_made) = Len(tool_results)

\* the same tool twice in one response, the first dispatch ending in an error
C11_Witness ==
    /\ Succeeded
    /\ outcome.value.tool_calls_made = <<"query_facts", "query_facts">>
    /\ Rounds = 1
    /\ raised[1] \in StoreExceptions
    /\ raised[2] = NoExc

----------------------------------------------------------------------------
(* C12. ask never returns a success with an empty answer: a final response *)
(* without tool requests and without text, or with empty text only, makes  *)
(* ask fail with a ConversationAgentError.                                 *)
C12_NoEmptyAnswer ==
    /\ Succeeded => Len(outcome.value.answer) >= 1
    /\ (ZeroToolResponse /\ \A n \in 1..Len(response) : response[n].text = "") =>
          /\ pc = "done"
          /\ outcome.kind = "raise"
          /\ outcome.type = "ConversationAgentError"

\* a final response of one empty text segment, after a round of tools
C12_Witness ==
    /\ pc = "done"
    /\ response = << [type |-> "text", text |-> ""] >>
    /\ engine_calls = 2
    /\ outcome.kind = "raise"
    /\ outcome.type = "ConversationAgentError"

----------------------------------------------------------------------------
(* C13. No retry: when an engine call raises, ask fails with a             *)
(* ConversationAgentError, the failing call having been made once, and     *)
(* makes no further engine call or tool dispatch.                          *)
C13_NoRetry ==
    engine_exc # NoExc =>
        /\ pc = "done"
        /\ outcome.kind = "raise"
        /\ outcome.type = "ConversationAgentError"
        /\ engine_calls = Rounds + 1
        /\ dispatches = Len(tool_results)
        /\ ~ENABLED Next

\* the second engine call failed, after one round of tools
C13_Witness ==
    /\ engine_exc # NoExc
    /\ pc = "done"
    /\ engine_calls = 2
    /\ dispatches >= 1
    /\ outcome.type = "ConversationAgentError"

----------------------------------------------------------------------------
(* C14. Invocations of ask on one agent are independent: under every       *)
(* interleaving, the history, the tool results, tool_calls_made and the    *)
(* citations of an invocation hold only what that invocation produced.     *)

\* the locals of invocation k, running or suspended
FrameOf(k) == IF k = tasks.running THEN Frame ELSE tasks.frames[k]

\* what a dispatch of invocation k can result in
OwnResults(k) ==
    { execute_tool_call(cache, graph, PairRequest(k).name, PairRequest(k).input, beh).value :
        beh \in StoreBehaviours }

C14_InvocationsIndependent ==
    \A k \in Invocations :
        LET f == FrameOf(k)
            shown == HistoryBlocks(f.messages)
            requested == RequestedNames(f.messages)
        IN  /\ f.pc # "idle" =>
                  f.messages[1] = [role |-> "user", content |-> PairQuestion(k)]
            /\ Len(f.tool_results) = f.dispatches
            /\ Len(f.tool_calls_made) = f.dispatches
            /\ \A i \in 1..Len(f.tool_calls_made) : f.tool_calls_made[i] = PairRequest(k).name
            /\ \A i \in 1..Len(f.tool_results) : f.tool_results[i] \in OwnResults(k)
            /\ \A i \in 1..Len(requested) : requested[i] = PairRequest(k).name
            /\ \A i \in 1..Len(shown) : shown[i].content = Str(f.tool_results[i])
            /\ f.outcome.kind = "return" =>
                  /\ f.outcome.value.tool_calls_made = f.tool_calls_made
                  /\ \A n \in 1..Len(f.outcome.value.citations) :
                        \E i \in 1..Len(f.tool_results) :
                            \E m \in 1..Len(FactsOf(f.tool_results[i])) :
                                FactsOf(f.tool_results[i])[m].id
                                    = f.outcome.value.citations[n].fact_id

\* invocation 2 ran from start to end while invocation 1 was suspended in
\* the middle of its loop
C14_Witness ==
    /\ tasks.running = 2
    /\ Succeeded
    /\ Len(tool_results) = 1
    /\ outcome.value.citations = <<>>
    /\ tasks.frames[1].pc = "engine"
    /\ Len(tasks.frames[1].tool_results) = 1
    /\ "fact" \in DOMAIN tasks.frames[1].tool_results[1]

----------------------------------------------------------------------------
(* C15. However many threads call load_registry(name) on a registry that   *)
(* is not cached, in whatever interleaving, the file is read and parsed    *)
(* once and every caller gets the same registry object; later calls get    *)
(* that object without a read, until reload_registry or clear_cache takes  *)
(* the registry out of the cache.                                          *)
C15_LoadedOnce ==
    /\ \A name \in RegistryNames :
          /\ loads.reads[name] <= 1
          /\ InCache(cache, name) => loads.reads[name] = 1
          /\ \A r \in loads.returned :
                (r.name = name /\ r.epoch = loads.epoch[name]) =>
                    /\ loads.reads[name] = 1
                    /\ InCache(cache, name)
                    /\ Cached(cache, name).serial = r.serial
    /\ \A r1, r2 \in loads.returned :
          (r1.name = r2.name /\ r1.epoch = r2.epoch) => r1.serial = r2.serial

\* two threads asked for the same registry, three calls in all: one read
C15_Witness ==
    /\ InCache(cache, "boston_rpp")
    /\ threads[1].calls = 2
    /\ threads[2].calls = 1
    /\ \A t \in {1, 2} :
          /\ threads[t].pc = "idle"
          /\ threads[t].outer = "load_registry"
          /\ threads[t].name = "boston_rpp"
          /\ threads[t].result = Cached(cache, "boston_rpp")
    /\ loads.reads["boston_rpp"] = 1
    /\ loads.serial = 1

----------------------------------------------------------------------------
(* C16. ask writes to no store: whatever the question, the engine and the  *)
(* outcome, no step of ask changes the cache of the Fact Store or the      *)
(* graph; the dispatcher only calls lookups.                               *)
C16_NoStoreWrites == [][cache' = cache /\ graph' = graph]_vars

\* an ask that made two lookups, one of which failed, and ended
C16_Witness ==
    /\ pc = "done"
    /\ store_calls = 2
    /\ \E i \in 1..Len(raised) : raised[i] \in StoreExceptions
    /\ cache = InitialCache
    /\ graph = InitialGraph

----------------------------------------------------------------------------
(* C17. The chat endpoint maps each outcome of ask to one status: 200 for  *)
(* a returned response (with or without citations), 400 for a ValueError,  *)
(* 503 for a graph ConnectionError and for an agent error whose message    *)
(* mentions connection, timeout, unavailable or network, 500 for every     *)
(* other agent error and every other exception.                            *)

\* the agent error messages of this model that mention one of the four words
MentionsConnectivity ==
    { "Failed to generate response: Connection error.",
      "Connection timeout",
      "Network error occurred" }

C17_StatusMapping ==
    http # NoResponse =>
        /\ outcome.kind = "return" => http.status_code = 200 /\ http.body = outcome.value
        /\ outcome.kind = "raise" =>
              IF outcome.type = "ValueError" THEN http.status_code = 400
              ELSE IF outcome.type = "ConnectionError" THEN http.status_code = 503
              ELSE IF outcome.type = "ConversationAgentError"
                      /\ outcome.message \in MentionsConnectivity
                   THEN http.status_code = 503
              ELSE http.status_code = 500

\* the engine was unreachable on the second call: 503
C17_Witness ==
    /\ http.status_code = 503
    /\ engine_exc.type = "APIConnectionError"
    /\ engine_calls = 2
    /\ outcome.type = "ConversationAgentError"

----------------------------------------------------------------------------
(* C18. A connectivity failure of a store during a dispatch (the graph     *)
(* store raising ConnectionError) is told apart from a query error: the    *)
(* tool result has another error kind than that of a query error, or ask   *)
(* fails because of it, and the chat endpoint answers the request with     *)
(* 503.                                                                    *)
C18_ConnectivityDistinguishable ==
    \A i \in 1..Len(raised) :
        raised[i].type = "ConnectionError" =>
            /\ \/ Len(tool_results) < i
               \/ Get(tool_results[i], "error") # "internal_error"
               \/ pc = "done" /\ outcome.kind = "raise" /\ outcome.type = "ConnectionError"
            /\ http # NoResponse => http.status_code = 503

----------------------------------------------------------------------------
(* C19. Dispatching a tool whose name is neither query_graph nor           *)
(* query_facts returns a result with an error key whose message contains   *)
(* the text "Unknown tool".                                                *)
C19_UnknownToolNamed ==
    \A i \in 1..Len(tool_results) :
        tool_calls_made[i] \notin {"query_graph", "query_facts"} =>
            /\ "error" \in DOMAIN tool_results[i]
            /\ "message" \in DOMAIN tool_results[i]
            /\ Contains(tool_results[i]["message"], "Unknown tool")

----------------------------------------------------------------------------
(* C20. After any sequence of load_registry, reload_registry and           *)
(* clear_cache calls, with one or several registries loaded, get_all_facts *)
(* never returns two facts with the same id.                               *)
NoDuplicateIds(facts) ==
    \A i, j \in 1..Len(facts) : facts[i].fields.id = facts[j].fields.id => i = j

C20_GloballyUniqueIds ==
    \A t \in Threads :
        (threads[t].pc = "idle" /\ threads[t].outer = "get_all_facts") =>
            NoDuplicateIds(threads[t].result)

----------------------------------------------------------------------------
(* SpecClient: the Neo4jClient singleton under sequences of connect, close *)
(* and get_session calls, with a driver that can fail                      *)

\* calls made on the client
MaxClientCalls == 4

\* Neo4jConfig(): the settings of the environment; database None = default DB
Neo4jConfig == [uri |-> "bolt://localhost:7687", database |-> None]
\* a config passed by the caller
BostonConfig == [uri |-> "bolt://graph:7687", database |-> "boston"]
ConfigArgs == { Nothing, BostonConfig }
DatabaseArgs == { None, "", "archive" }

\* config or Neo4jConfig()
ConfigOrDefault(config) == IF config = Nothing THEN Neo4jConfig ELSE config

\* what AsyncGraphDatabase.driver and verify_connectivity do in one connect
ConnectBehaviours == { "ok", "driver_raises", "ServiceUnavailable", "Neo4jError" }
\* what driver.close() does
CloseBehaviours == { "ok", "close_raises" }

\* the attributes of the client before a call
Snapshot(c) == [driver |-> c.driver, config |-> c.config, verified |-> c.verified]

CallReturned(c, op, value, attempted) ==
    [op |-> op, kind |-> "return", type |-> "", message |-> "", value |-> value,
     attempted |-> attempted, before |-> Snapshot(c)]
CallRaised(c, op, type, message, attempted) ==
    [op |-> op, kind |-> "raise", type |-> type, message |-> message, value |-> Nothing,
     attempted |-> attempted, before |-> Snapshot(c)]

\* connect without the early return of line 70
connect_again(c, config, beh) ==
    LET driven == [c EXCEPT !.config = ConfigOrDefault(config),
                            !.driver = [id |-> c.created + 1],
                            !.created = c.created + 1]
    IN  CASE beh = "ok" ->
                 [driven EXCEPT !.verified = TRUE,
                                !.last = CallReturned(c, "connect", None, TRUE)]
          [] OTHER ->
                 [driven EXCEPT !.failures = c.failures + 1,
                                !.last = CallRaised(c, "connect", beh, "Cannot connect", TRUE)]

\* Neo4jClient.connect
connect(c, config, beh) ==
    IF c.driver # Nothing
    THEN [c EXCEPT !.last = CallReturned(c, "connect", None, FALSE)]
    ELSE LET configured == [c EXCEPT !.config = ConfigOrDefault(config)]
             driven == [configured EXCEPT !.driver = [id |-> c.created + 1],
                                          !.created = c.created + 1]
         IN  CASE beh = "driver_raises" ->
                      [configured EXCEPT
                          !.failures = c.failures + 1,
                          !.last = CallRaised(c, "connect", "ConfigurationError",
                                              "URI scheme not supported", TRUE)]
               [] beh = "ok" ->
                      [driven EXCEPT
                          !.verified = TRUE,
                          !.last = CallReturned(c, "connect", None, TRUE)]
               [] OTHER ->
                      [driven EXCEPT
                          !.failures = c.failures + 1,
                          !.last = CallRaised(c, "connect", beh, "Cannot connect", TRUE)]

\* Neo4jClient.close
close(c, beh) ==
    IF c.driver # Nothing
    THEN IF beh = "close_raises"
         THEN [c EXCEPT !.failures = c.failures + 1,
                        !.last = CallRaised(c, "close", "Neo4jError", "close failed", FALSE)]
         ELSE [c EXCEPT !.driver = Nothing, !.config = Nothing, !.verified = FALSE,
                        !.last = CallReturned(c, "close", None, FALSE)]
    ELSE [c EXCEPT !.last = CallReturned(c, "close", None, FALSE)]

\* Neo4jClient.get_session, up to the yield
get_session(c, database) ==
    IF c.driver = Nothing
    THEN [c EXCEPT !.last = CallRaised(c, "get_session", "RuntimeError",
                                       "Neo4j driver not connected. Call connect() first.",
                                       FALSE)]
    ELSE LET db == IF ~Falsy(database) THEN database
                   ELSE IF c.config # Nothing THEN c.config.database ELSE None
         IN  [c EXCEPT !.last = CallReturned(c, "get_session",
                                             [driver |-> c.driver, database |-> db], FALSE)]

outside_client ==
    <<ask_vars, cache, graph, tasks, http, lock, threads, disk, loads>>

\* one more call made
Called(after) == [after EXCEPT !.calls = after.calls + 1]

Connect(config, beh) ==
    /\ neo4j.calls < MaxClientCalls
    /\ neo4j' = Called(connect(neo4j, config, beh))
    /\ UNCHANGED outside_client

Close(beh) ==
    /\ neo4j.calls < MaxClientCalls
    /\ neo4j' = Called(close(neo4j, beh))
    /\ UNCHANGED outside_client

GetSession(database) ==
    /\ neo4j.calls < MaxClientCalls
    /\ neo4j' = Called(get_session(neo4j, database))
    /\ UNCHANGED outside_client

ClientConnects == \E config \in ConfigArgs, beh \in ConnectBehaviours : Connect(config, beh)
ClientCloses == \E beh \in CloseBehaviours : Close(beh)
ClientGetsSession == \E database \in DatabaseArgs : GetSession(database)

NextClient == ClientConnects \/ ClientCloses \/ ClientGetsSession

SpecClient == Init /\ [][NextClient]_vars

----------------------------------------------------------------------------
(* C21. For any sequence of successful connect and close calls on the      *)
(* Neo4j client: get_session raises RuntimeError (not connected) when the  *)
(* client was never connected or was closed since its last connect, and    *)
(* yields a session when it is connected; close clears driver and config;  *)
(* connect on a connected client leaves driver and config as they were.    *)
C21_ClientLifecycle ==
    neo4j.failures = 0 =>
        /\ neo4j.last.op = "get_session" =>
              IF neo4j.verified
              THEN /\ neo4j.last.kind = "return"
                   /\ neo4j.last.value.driver = neo4j.driver
              ELSE /\ neo4j.last.kind = "raise"
                   /\ neo4j.last.type = "RuntimeError"
                   /\ Contains(neo4j.last.message, "not connected")
        /\ neo4j.last.op = "close" =>
              neo4j.driver = Nothing /\ neo4j.config = Nothing
        /\ (neo4j.last.op = "connect" /\ neo4j.last.before.verified) =>
              /\ neo4j.driver = neo4j.last.before.driver
              /\ neo4j.config = neo4j.last.before.config

\* four calls that all succeeded, among them a connect and a close of its
\* driver, then a get_session that raised
C21_Witness ==
    /\ neo4j.failures = 0
    /\ neo4j.calls = 4
    /\ neo4j.created = 1
    /\ neo4j.last.op = "get_session"
    /\ neo4j.last.type = "RuntimeError"
    /\ neo4j.last.before.driver = Nothing

----------------------------------------------------------------------------
(* C28. A connect() that fails during connectivity verification leaves the *)
(* client disconnected: no driver is retained, so get_session still raises *)
(* RuntimeError, and a later connect() makes a fresh connection attempt    *)
(* instead of returning early as already connected.                        *)
C28_FailedConnectLeavesDisconnected ==
    /\ (/\ neo4j.last.op = "connect"
        /\ neo4j.last.kind = "raise"
        /\ neo4j.last.type \in {"ServiceUnavailable", "Neo4jError"}) =>
            neo4j.driver = Nothing
    /\ (neo4j.last.op = "get_session" /\ ~neo4j.verified) =>
            neo4j.last.kind = "raise" /\ neo4j.last.type = "RuntimeError"
    /\ (neo4j.last.op = "connect" /\ ~neo4j.last.before.verified) =>
            neo4j.last.attempted

----------------------------------------------------------------------------
(* SpecDispatch: _execute_tool_call called on its own, on every tool name  *)
(* and input map of the sets below, the store answering or raising         *)

ToolNames == { "query_graph", "query_facts", "unknown_tool" }
GraphQueryTypes ==
    { "get_process", "get_process_steps", "get_process_requirements",
      "get_step_office", "get_step_documents", "get_requirement_documents" }
FactsQueryTypes == { "by_id", "by_prefix", "all" }
\* query_type values an input map can carry: empty, known to a tool, unknown
QueryTypeValues == { "", "get_everything" } \cup GraphQueryTypes \cup FactsQueryTypes
CompanionKeys == { "process_id", "step_id", "requirement_id", "fact_id", "prefix" }
\* an id or prefix that exists in the stores
Existing(key) ==
    CASE key = "process_id" -> "p1"
      [] key = "step_id" -> "s1"
      [] key = "requirement_id" -> "r1"
      [] key = "fact_id" -> "rpp.a"
      [] key = "prefix" -> "rpp."
\* values of a companion field: empty, existing, not existing
CompanionValues(key) == { "", Existing(key), "zz" }

\* input maps: with or without query_type, with at most one companion field
InputMaps ==
    LET types == { <<>> } \cup { "query_type" :> q : q \in QueryTypeValues }
        companions == { <<>> } \cup
                      UNION { { key :> v : v \in CompanionValues(key) } : key \in CompanionKeys }
    IN  { t @@ c : t \in types, c \in companions }

DispatchInputs == { [name |-> n, input |-> i] : n \in ToolNames, i \in InputMaps }

InitDispatch ==
    /\ pc = "tool_call"
    /\ response \in { <<ToolUse("toolu_1", request)>> : request \in DispatchInputs }
    /\ question = Question(0, 0, 0)
    /\ max_iterations = 0
    /\ iteration = 0
    /\ messages = <<>>
    /\ tool_results = <<>>
    /\ tool_calls_made = <<>>
    /\ tool_idx = 1
    /\ tool_response_content = <<>>
    /\ args = [question |-> Question(0, 0, 0), max_iterations |-> Omitted]
    /\ outcome = NoOutcome
    /\ cache = InitialCache
    /\ graph = InitialGraph
    /\ engine_calls = 0
    /\ dispatches = 0
    /\ store_calls = 0
    /\ raised = <<>>
    /\ engine_exc = NoExc
    /\ tasks = InitialTasks
    /\ http = NoResponse
    /\ neo4j = NewClient
    /\ lock = NoThread
    /\ threads = InitialThreads
    /\ disk = InitialDisk
    /\ loads = NoLoads

\* await self._execute_tool_call(tool_use.name, tool_use.input), on its own
ToolCall(beh) ==
    /\ pc = "tool_call"
    /\ pc' = "done"
    /\ LET tool_use == response[tool_idx]
           tried == route_tool_call(cache, graph, tool_use.name, tool_use.input, beh)
           call == execute_tool_call(cache, graph, tool_use.name, tool_use.input, beh)
       IN  /\ outcome' = IF call.raised
                         THEN Raised(call.exc.type, call.exc.text)
                         ELSE Returned(call.value)
           /\ dispatches' = dispatches + 1
           /\ store_calls' = store_calls + call.store_calls
           /\ raised' = Append(raised, tried.exc)
    /\ UNCHANGED <<question, max_iterations, iteration, messages, tool_results,
                   tool_calls_made, response, tool_idx, tool_response_content, args,
                   cache, graph, engine_calls, engine_exc>>
    /\ UNCHANGED surroundings

NextDispatch == \E beh \in StoreBehaviours : ToolCall(beh)

SpecDispatch == InitDispatch /\ [][NextDispatch]_vars

\* the request of the dispatch, and what the tool definitions say about it
Requested == [name |-> response[1].name, input |-> response[1].input]
KnownQueryTypes(name) ==
    CASE name = "query_graph" -> GraphQueryTypes
      [] name = "query_facts" -> FactsQueryTypes
      [] OTHER -> {}
CompanionOf(query_type) ==
    CASE query_type \in {"get_process", "get_process_steps", "get_process_requirements"} ->
             "process_id"
      [] query_type \in {"get_step_office", "get_step_documents"} -> "step_id"
      [] query_type = "get_requirement_documents" -> "requirement_id"
      [] query_type = "by_id" -> "fact_id"
      [] query_type = "by_prefix" -> "prefix"
      [] OTHER -> None
UnknownToolName(request) == KnownQueryTypes(request.name) = {}
UnknownOrMissingQueryType(request) ==
    /\ ~UnknownToolName(request)
    /\ Get(request.input, "query_type") \notin KnownQueryTypes(request.name)
MissingCompanion(request) ==
    /\ ~UnknownToolName(request)
    /\ ~UnknownOrMissingQueryType(request)
    /\ request.input["query_type"] # "all"
    /\ CompanionOf(request.input["query_type"]) \notin DOMAIN request.input

ResultKeys ==
    { "error", "message", "tool", "fact", "facts", "process", "steps", "requirements",
      "office", "documents" }

----------------------------------------------------------------------------
----------------------------------------------------------------------------
(* C23. A dispatch makes one call on one backing store when the request is *)
(* accepted and none when it is rejected, never two. As amended: a request *)
(* is accepted when its tool and query_type are known and its companion    *)
(* field is present and not empty (or the query_type is all); a companion  *)
(* field that is present but empty is rejected as a missing parameter.     *)

\* the tool and the query_type are known, and no companion field is asked for or it is there
CarriesCompanion(request) ==
    /\ ~UnknownToolName(request)
    /\ ~UnknownOrMissingQueryType(request)
    /\ ~MissingCompanion(request)
\* ... and it is not empty
CarriesNonEmptyCompanion(request) ==
    /\ CarriesCompanion(request)
    /\ request.input["query_type"] # "all" =>
           request.input[CompanionOf(request.input["query_type"])] # ""
\* the dispatcher turned the request down: an error result without a store call
Rejected == store_calls = 0 /\ "error" \in DOMAIN outcome.value

C23_OneStoreCallOrRejected ==
    pc = "done" =>
        /\ store_calls <= 1
        /\ CarriesNonEmptyCompanion(Requested) => store_calls = 1 /\ ~Rejected
        /\ ~CarriesNonEmptyCompanion(Requested) => Rejected

\* the statement as first made: a companion field that is present is enough
C23_Original ==
    pc = "done" =>
        /\ store_calls <= 1
        /\ CarriesCompanion(Requested) => store_calls = 1 /\ ~Rejected
        /\ ~CarriesCompanion(Requested) => Rejected

\* by_prefix with the prefix "": the field is there, the request is rejected
C23_Witness ==
    /\ pc = "done"
    /\ Requested.name = "query_facts"
    /\ Get(Requested.input, "query_type") = "by_prefix"
    /\ Get(Requested.input, "prefix") = ""
    /\ store_calls = 0
    /\ outcome.value = [error |-> "Missing required parameter: prefix"]

----------------------------------------------------------------------------
(* C26. Every result of the Tool Dispatcher is either an error payload     *)
(* with an error kind and a message, or a domain payload keyed by one      *)
(* entity type (fact, facts, process, steps, requirements, office,         *)
(* documents); no error payload lacks its message.                         *)
EntityKeys == { "fact", "facts", "process", "steps", "requirements", "office", "documents" }

C26_DiscriminatedUnion ==
    pc = "done" =>
        /\ outcome.kind = "return"
        /\ IF "error" \in DOMAIN outcome.value
           THEN /\ "message" \in DOMAIN outcome.value
                /\ DOMAIN outcome.value \cap EntityKeys = {}
           ELSE \E key \in EntityKeys : DOMAIN outcome.value = {key}

----------------------------------------------------------------------------
(* C24. The tools one engine response requests are dispatched one after    *)
(* another in the order the engine listed them, each dispatch completing   *)
(* before the next starts and no engine call in between; their results     *)
(* enter the accumulated tool results and the history in that order.       *)

\* the tool_result block of request `tool_use` with result `result`
ResultBlock(tool_use, result) ==
    [type |-> "tool_result", tool_use_id |-> tool_use.id, content |-> Str(result)]

\* a step taken while tools are pending dispatches the next listed request
DispatchesNextListed ==
    pc = "dispatch" =>
        LET listed == SelectSeq(response, IsToolUse)
            k == Len(tool_response_content) + 1
            before == Len(tool_results)
        IN  /\ k <= Len(listed)
            /\ engine_calls' = engine_calls
            /\ dispatches' = dispatches + 1
            /\ tool_calls_made' = Append(tool_calls_made, listed[k].name)
            /\ Len(tool_results') = before + 1
            /\ SubSeq(tool_results', 1, before) = tool_results
            /\ IF k < Len(listed)
               THEN /\ pc' = "dispatch"
                    /\ messages' = messages
                    /\ tool_response_content' =
                           Append(tool_response_content,
                                  ResultBlock(listed[k], tool_results'[before + 1]))
               ELSE /\ pc' # "dispatch"
                    /\ messages' = messages \o
                           << [role |-> "assistant", content |-> response],
                              [role |-> "user",
                               content |-> [j \in 1..Len(listed) |->
                                   ResultBlock(listed[j],
                                               tool_results'[before + 1 - Len(listed) + j])]] >>

C24_SequentialDispatch == [][DispatchesNextListed]_vars

\* one response asked for a graph lookup and then a fact lookup; both were made
C24_Witness ==
    /\ Len(messages) = 3
    /\ tool_calls_made = <<"query_graph", "query_facts">>
    /\ Len(messages[3].content) = 2
    /\ messages[3].content[1].tool_use_id = "toolu_1"
    /\ messages[3].content[1].content = Str(tool_results[1])
    /\ messages[3].content[2].content = Str(tool_results[2])
    /\ "requirements" \in DOMAIN tool_results[1]
    /\ "fact" \in DOMAIN tool_results[2]
    /\ engine_calls = 1

----------------------------------------------------------------------------
(* C25. On the first engine call of an ask that passes validation, the     *)
(* history is exactly one user message. As amended: its content is the     *)
(* question passed to ask with its leading and trailing whitespace         *)
(* removed, which is the verbatim question only when it has none.          *)
AtFirstEngineCall == pc = "engine" /\ engine_calls = 0

C25_FirstMessageIsStrippedQuestion ==
    AtFirstEngineCall =>
        /\ Len(messages) = 1
        /\ messages[1].role = "user"
        /\ messages[1].content.lead = 0
        /\ messages[1].content.body = args.question.body
        /\ messages[1].content.trail = 0

\* the statement as first made: the content is the question as passed
C25_Original ==
    AtFirstEngineCall =>
        /\ Len(messages) = 1
        /\ messages[1].role = "user"
        /\ messages[1].content = args.question

\* a question with a space on both sides
C25_Witness ==
    /\ AtFirstEngineCall
    /\ args.question = Question(1, 1, 1)
    /\ messages = << [role |-> "user", content |-> Question(0, 1, 0)] >>

----------------------------------------------------------------------------
----------------------------------------------------------------------------
(* C29. reload_registry is atomic for concurrent readers: while a thread   *)
(* runs reload_registry(name) on a cached registry whose file is present   *)
(* and valid, a get_fact_by_id, get_facts_by_prefix or get_all_facts of    *)
(* another thread sees the facts of the old or of the new version of the   *)
(* registry, never the registry as absent.                                 *)
ReaderOps == { "get_fact_by_id", "get_facts_by_prefix", "get_all_facts" }

\* thread u is inside reload_registry, which found its registry in the cache
ReloadingCached(u) ==
    /\ threads[u].outer = "reload_registry"
    /\ threads[u].pc # "idle"
    /\ \/ threads[u].op = "reload_registry" /\ InCache(cache, threads[u].name)
       \/ threads[u].op = "load_registry" /\ threads[u].registry # Nothing

\* the result of a reader holds what the registry with these facts contributes
SeesRegistry(op, result, facts) ==
    CASE op = "get_all_facts" ->
             \A k \in 1..Len(facts) : \E i \in 1..Len(result) : result[i] = facts[k]
      [] op = "get_facts_by_prefix" ->
             \A k \in 1..Len(facts) :
                 IdHasPrefix(facts[k], "rpp.") => \E i \in 1..Len(result) : result[i] = facts[k]
      [] op = "get_fact_by_id" ->
             (\E k \in 1..Len(facts) : facts[k].fields.id = "rpp.a") => result # Nothing

\* every read made during such a reload sees the registry
ReadSeesReloadedRegistry ==
    \A t \in Threads :
        (/\ threads[t].pc = "locked"
         /\ threads[t].op \in ReaderOps
         /\ threads'[t].pc = "idle") =>
            \A u \in Threads \ {t} :
                ReloadingCached(u) =>
                    SeesRegistry(threads[t].op, threads'[t].result, disk[threads[u].name])

C29_ReloadAtomicForReaders == [][ReadSeesReloadedRegistry]_vars

----------------------------------------------------------------------------
(* SpecStoreFair: the threads of SpecStore, with registry files that can   *)
(* be missing, unparsable or invalid when they are read, and a scheduler   *)
(* that lets every thread that can take a step take one eventually         *)

\* what load_registry raises between the cache check and the cache store
LoadErrors == { "RegistryNotFoundError", "RegistryParseError", "RegistryValidationError" }

\* a failing load that leaves the `with` block without releasing the lock
LoadFailsHoldingLock(t, error) ==
    /\ threads[t].pc = "read"
    /\ threads' = [threads EXCEPT ![t].pc = "idle", ![t].result = [raised |-> error]]
    /\ UNCHANGED <<cache, lock, disk, loads>>

\* load_registry raises inside `with self._lock`: the lock is released on the way out
LoadFails(t, error) ==
    /\ threads[t].pc = "read"
    /\ threads' = [threads EXCEPT ![t].pc = "idle", ![t].result = [raised |-> error]]
    /\ lock' = NoThread
    /\ UNCHANGED <<cache, disk, loads>>

ThreadLoadFails ==
    (\E t \in Threads : \E error \in LoadErrors : LoadFails(t, error)) /\ UNCHANGED outside_service

NextStoreFailing == NextStore \/ ThreadLoadFails

\* the steps of thread t inside a call
ThreadStep(t) ==
    /\ \/ Acquire(t) \/ LoadCheck(t) \/ LoadRead(t) \/ LoadStore(t) \/ ReloadDelete(t)
       \/ ClearCache(t) \/ GetAllFacts(t) \/ GetFactById(t) \/ GetFactsByPrefix(t)
       \/ \E error \in LoadErrors : LoadFails(t, error)
    /\ UNCHANGED outside_service

SpecStoreFair ==
    InitStore /\ [][NextStoreFailing]_vars /\ \A t \in Threads : WF_vars(ThreadStep(t))

----------------------------------------------------------------------------
(* C30. FactsService never deadlocks: under any interleaving of            *)
(* load_registry, reload_registry, clear_cache and the query methods the   *)
(* lock is released on every path, a load that fails with a not-found,     *)
(* parse or validation error included (it leaves the cache unchanged), so  *)
(* every call eventually returns or raises.                                *)

\* the lock is held only by a thread inside a `with self._lock` block
LockHeldInsideWith ==
    /\ lock # NoThread => threads[lock].pc \in {"locked", "read", "store"}
    /\ \A t \in Threads : threads[t].pc \in {"locked", "read", "store"} => lock = t

\* a step in which a call raises leaves the cache as it was and the lock free
FailedLoadLeavesCache ==
    \A t \in Threads :
        (threads[t].pc = "read" /\ threads'[t].pc = "idle") =>
            cache' = cache /\ lock' = NoThread

C30_NoDeadlock ==
    /\ [](LockHeldInsideWith)
    /\ [][FailedLoadLeavesCache]_vars
    /\ \A t \in Threads : (threads[t].pc # "idle") ~> (threads[t].pc = "idle")

\* a load of one thread failed; the other thread loaded and read; the lock is free
C30_Witness ==
    /\ lock = NoThread
    /\ threads[1].pc = "idle"
    /\ threads[1].outer = "load_registry"
    /\ threads[1].calls = 1
    /\ "raised" \in DOMAIN threads[1].result
    /\ threads[1].result.raised = "RegistryParseError"
    /\ threads[2].pc = "idle"
    /\ threads[2].calls = 2
    /\ threads[2].outer = "get_all_facts"
    /\ Len(threads[2].result) = 2

====
